---- MODULE Spec2Model ----
(***************************************************************************)
(* Model of the Dartos document-processing pipeline:                       *)
(*   backend/main.py            upload, background processing, status      *)
(*   backend/services/rag_service.py   chunking and the vector index       *)
(* Texts are sequences of one-character strings; messages are strings.     *)
(***************************************************************************)
EXTENDS Integers, Sequences, FiniteSets, TLC

----------------------------------------------------------------------------
(* Bounds of the model *)

\* number of uploads accepted in one behaviour
MaxDocs == 2
\* number of uploads accepted in one behaviour over a failing record store
MaxFaultDocs == 1
\* uploads in the runs that make direct calls
MaxServiceDocs == 1
\* largest document id a direct call is made with
MaxServiceId == 2
\* number of blocks in a text handed to the validation on its own
MaxBlocks == 3
\* length of the texts chunked with small parameters
MaxChunkText == 3
\* largest chunk_size and largest overlap tried on them
MaxChunkSize == 3
MaxOverlap == 3
\* number of sentence ends and paragraph breaks placed in a long document
MaxMarks == 3
\* number of uploads accepted in one behaviour of the upload endpoint
MaxUploadDocs == 1

----------------------------------------------------------------------------
(* Program constants *)

\* main.py:110  if length < 50
MinTextLength == 50
\* main.py:117  if special_ratio > 0.3   (0.3 = SpecialRatioNum / SpecialRatioDen)
SpecialRatioNum == 3
SpecialRatioDen == 10
\* main.py:121  (.)\1{10,}
RepeatCount == 10
\* main.py:126  if len(words) < 10
MinWordCount == 10
\* main.py:171  max_index_retries = 3
max_index_retries == 3
\* rag_service.py:19  max_retries: int = 3
max_retries == 3
\* main.py:43  MAX_FILE_SIZE = 50 * 1024 * 1024
MAX_FILE_SIZE == 52428800
\* main.py:44
ALLOWED_EXTENSIONS == {".pdf"}
\* rag_service.py:54  chunk_size: int = 1000, overlap: int = 200
DefaultChunkSize == 1000
DefaultOverlap == 200

----------------------------------------------------------------------------
(* Python values *)

\* Optional[str]: None is <<>>, a string s is <<s>>
None == <<>>

Some(s) == <<s>>

Min(S) == CHOOSE x \in S : \A y \in S : x <= y

Max(S) == CHOOSE x \in S : \A y \in S : x >= y

\* str.isspace() on the characters the model uses
IsSpace(c) == c \in {" ", "\t", "\n"}

\* str.isalnum() on the characters the model uses
IsAlnum(c) ==
    c \in {"a","b","c","d","e","f","g","h","i","j","k","l","m","n","o","p","q",
           "r","s","t","u","v","w","x","y","z",
           "A","B","C","D","E","F","G","H","I","J","K","L","M","N","O","P","Q",
           "R","S","T","U","V","W","X","Y","Z",
           "0","1","2","3","4","5","6","7","8","9"}

\* the punctuation main.py:114 does not count as special: '.,!?;:-()[]{}'
AllowedPunct == {".", ",", "!", "?", ";", ":", "-", "(", ")", "[", "]", "{", "}"}

\* str.strip(): drop leading and trailing whitespace
strip(s) ==
    LET n == Len(s)
        first == CHOOSE i \in 1..n :
                    ~IsSpace(s[i]) /\ \A j \in 1..(i - 1) : IsSpace(s[j])
        last == CHOOSE i \in 1..n :
                   ~IsSpace(s[i]) /\ \A j \in (i + 1)..n : IsSpace(s[j])
    IN  IF \A i \in 1..n : IsSpace(s[i]) THEN <<>> ELSE SubSeq(s, first, last)

\* len(text.split()): the number of maximal runs of non-whitespace
WordCount(s) ==
    Cardinality({i \in 1..Len(s) :
                    ~IsSpace(s[i]) /\ (i = 1 \/ IsSpace(s[i-1]))})

\* main.py:114  the characters counted as special
SpecialChars(s) ==
    Cardinality({i \in 1..Len(s) :
                    ~IsAlnum(s[i]) /\ ~IsSpace(s[i]) /\ s[i] \notin AllowedPunct})

\* main.py:121  re.search(r'(.)\1{10,}', text): a character other than newline
\* followed by RepeatCount or more copies of itself
HasRepetition(s) ==
    \E i \in 1..(Len(s) - RepeatCount) :
        /\ s[i] # "\n"
        /\ \A j \in 1..RepeatCount : s[i+j] = s[i]

\* two decimal digits
TwoDigits(n) == IF n < 10 THEN "0" \o ToString(n) ELSE ToString(n)

\* f'{num/den:.2%}': the ratio as a percentage with two decimals
FormatPercent(num, den) ==
    LET n == num * 10000
        q == n \div den
        r == n % den
        h == IF 2 * r >= den THEN q + 1 ELSE q
    IN  ToString(h \div 100) \o "." \o TwoDigits(h % 100) \o "%"

\* validate_extracted_text without the blank-text check of main.py:103-104
validate_without_blank_check(text) ==
    LET t == strip(text)
        length == Len(t)
        special_chars == SpecialChars(t)
        words == WordCount(t)
    IN  IF length < MinTextLength
        THEN [is_valid |-> FALSE,
              reason |-> "Text too short (" \o ToString(length) \o " characters)"]
        ELSE IF special_chars * SpecialRatioDen > SpecialRatioNum * length
        THEN [is_valid |-> FALSE,
              reason |-> "Too many special characters ("
                         \o FormatPercent(special_chars, length)
                         \o ") - possible OCR failure"]
        ELSE IF HasRepetition(t)
        THEN [is_valid |-> FALSE,
              reason |-> "Repetitive characters detected - possible extraction error"]
        ELSE IF words < MinWordCount
        THEN [is_valid |-> FALSE,
              reason |-> "Insufficient word count (" \o ToString(words) \o " words)"]
        ELSE [is_valid |-> TRUE, reason |-> "Text validation passed"]

\* validate_extracted_text that measures the text before trimming it
validate_untrimmed(text) ==
    IF text = <<>> \/ strip(text) = <<>>
    THEN [is_valid |-> FALSE, reason |-> "No text content"]
    ELSE
    LET t == strip(text)
        length == Len(text)
        special_chars == SpecialChars(t)
        words == WordCount(t)
    IN  IF length < MinTextLength
        THEN [is_valid |-> FALSE,
              reason |-> "Text too short (" \o ToString(length) \o " characters)"]
        ELSE IF special_chars * SpecialRatioDen > SpecialRatioNum * length
        THEN [is_valid |-> FALSE,
              reason |-> "Too many special characters ("
                         \o FormatPercent(special_chars, length)
                         \o ") - possible OCR failure"]
        ELSE IF HasRepetition(t)
        THEN [is_valid |-> FALSE,
              reason |-> "Repetitive characters detected - possible extraction error"]
        ELSE IF words < MinWordCount
        THEN [is_valid |-> FALSE,
              reason |-> "Insufficient word count (" \o ToString(words) \o " words)"]
        ELSE [is_valid |-> TRUE, reason |-> "Text validation passed"]

\* validate_extracted_text with the word count checked before the ratio of
\* special characters
validate_words_first(text) ==
    IF text = <<>> \/ strip(text) = <<>>
    THEN [is_valid |-> FALSE, reason |-> "No text content"]
    ELSE
    LET t == strip(text)
        length == Len(t)
        special_chars == SpecialChars(t)
        words == WordCount(t)
    IN  IF length < MinTextLength
        THEN [is_valid |-> FALSE,
              reason |-> "Text too short (" \o ToString(length) \o " characters)"]
        ELSE IF words < MinWordCount
        THEN [is_valid |-> FALSE,
              reason |-> "Insufficient word count (" \o ToString(words) \o " words)"]
        ELSE IF special_chars * SpecialRatioDen > SpecialRatioNum * length
        THEN [is_valid |-> FALSE,
              reason |-> "Too many special characters ("
                         \o FormatPercent(special_chars, length)
                         \o ") - possible OCR failure"]
        ELSE IF HasRepetition(t)
        THEN [is_valid |-> FALSE,
              reason |-> "Repetitive characters detected - possible extraction error"]
        ELSE [is_valid |-> TRUE, reason |-> "Text validation passed"]

\* main.py:101-129
validate_extracted_text(text) ==
    IF text = <<>> \/ strip(text) = <<>>
    THEN [is_valid |-> FALSE, reason |-> "No text content"]
    ELSE
    LET t == strip(text)
        length == Len(t)
        special_chars == SpecialChars(t)
        words == WordCount(t)
    IN  IF length < MinTextLength
        THEN [is_valid |-> FALSE,
              reason |-> "Text too short (" \o ToString(length) \o " characters)"]
        ELSE IF special_chars * SpecialRatioDen > SpecialRatioNum * length
        THEN [is_valid |-> FALSE,
              reason |-> "Too many special characters ("
                         \o FormatPercent(special_chars, length)
                         \o ") - possible OCR failure"]
        ELSE IF HasRepetition(t)
        THEN [is_valid |-> FALSE,
              reason |-> "Repetitive characters detected - possible extraction error"]
        ELSE IF words < MinWordCount
        THEN [is_valid |-> FALSE,
              reason |-> "Insufficient word count (" \o ToString(words) \o " words)"]
        ELSE [is_valid |-> TRUE, reason |-> "Text validation passed"]

----------------------------------------------------------------------------
(* rag_service.py: RAGService.chunk_text *)

IsBlank(c) == c \in {" ", "\t"}

\* a character removed by a substitution
Dropped == "dropped"

Kept(c) == c # Dropped

\* rag_service.py:61  re.sub(r'[ \t]+', ' ', ...): each maximal run of blanks
\* becomes one space
CollapseBlanks(s) ==
    SelectSeq([i \in 1..Len(s) |->
                  IF IsBlank(s[i])
                  THEN IF i > 1 /\ IsBlank(s[i-1]) THEN Dropped ELSE " "
                  ELSE s[i]], Kept)

\* rag_service.py:62  re.sub(r'\n\s*\n', '\n\n', text): in a whitespace run
\* with two or more newlines, the first and the last newline stay and all
\* the whitespace between them goes
CollapseParagraphs(s) ==
    LET n == Len(s)
        before(i) == /\ i > 1
                     /\ IsSpace(s[i-1])
                     /\ \/ s[i-1] = "\n"
                        \/ \E k \in 1..(i - 2) :
                              s[k] = "\n" /\ \A j \in k..i : IsSpace(s[j])
        after(i) == /\ i < n
                    /\ IsSpace(s[i+1])
                    /\ \/ s[i+1] = "\n"
                       \/ \E k \in (i + 2)..n :
                             s[k] = "\n" /\ \A j \in i..k : IsSpace(s[j])
    IN  SelectSeq([i \in 1..n |->
                      IF IsSpace(s[i]) /\ before(i) /\ after(i)
                      THEN Dropped ELSE s[i]], Kept)

\* rag_service.py:61-62
Normalize(text) == CollapseParagraphs(CollapseBlanks(strip(text)))

\* text[a:b] with 0-based a, b (b may exceed the length)
Slice(text, a, b) ==
    IF a >= Len(text) \/ b <= a THEN <<>>
    ELSE SubSeq(text, a + 1, IF b > Len(text) THEN Len(text) ELSE b)

\* rag_service.py:74-82  ends (absolute, exclusive) of the matches of [.!?]\s
\* inside text[start:end]
SentenceEnds(text, start, end) ==
    {p + 2 : p \in {q \in start..(end - 2) :
                       /\ q + 2 <= Len(text)
                       /\ text[q + 1] \in {".", "!", "?"}
                       /\ IsSpace(text[q + 2])}}

\* rag_service.py:86  text.rfind('\n\n', start, end), -1 when absent
ParaBreak(text, start, end) ==
    LET hits == {q \in start..(end - 2) :
                    /\ q + 2 <= Len(text)
                    /\ text[q + 1] = "\n"
                    /\ text[q + 2] = "\n"}
    IN  IF hits = {} THEN -1 ELSE Max(hits)

\* rag_service.py:69-88  the end of the window that starts at start
WindowEnd(text, start, chunk_size) ==
    LET end0 == start + chunk_size
    IN  IF end0 < Len(text)
        THEN LET min_pos == start + ((chunk_size * 6) \div 10)
                 ok == {e \in SentenceEnds(text, start, end0) : e >= min_pos}
                 end1 == IF ok = {} THEN end0 ELSE Max(ok)
                 para_break == ParaBreak(text, start, end1)
             IN  IF end1 = end0
                    /\ para_break # -1
                    /\ para_break > start + (chunk_size \div 2)
                 THEN para_break + 2
                 ELSE end1
        ELSE end0

\* rag_service.py:68-96  the while loop
RECURSIVE ChunkLoop(_, _, _, _, _)
ChunkLoop(text, start, chunks, chunk_size, overlap) ==
    IF start < Len(text)
    THEN LET end == WindowEnd(text, start, chunk_size)
             chunk == strip(Slice(text, start, end))
             next == IF start + 1 >= end - overlap THEN start + 1 ELSE end - overlap
         IN  ChunkLoop(text, next,
                       IF chunk # <<>> THEN Append(chunks, chunk) ELSE chunks,
                       chunk_size, overlap)
    ELSE chunks

\* rag_service.py:54-98
chunk_text(text, chunk_size, overlap) ==
    IF text = <<>> \/ strip(text) = <<>>
    THEN <<>>
    ELSE ChunkLoop(Normalize(text), 0, <<>>, chunk_size, overlap)

\* chunk ids that do not carry the document id
ChunkIdShared(doc_id, i) == "chunk_" \o ToString(i)

\* rag_service.py:113  f"doc_{doc_id}_chunk_{i}"
ChunkId(doc_id, i) == "doc_" \o ToString(doc_id) \o "_chunk_" \o ToString(i)

\* records whose chunk_index counts down from the last chunk
ChunkRecordsReversed(doc_id, chunks) ==
    {[id |-> ChunkId(doc_id, i - 1),
      document |-> chunks[i],
      metadata |-> [doc_id |-> doc_id, chunk_index |-> Len(chunks) - i]] :
        i \in 1..Len(chunks)}

\* rag_service.py:112-116  the records handed to collection.add
ChunkRecords(doc_id, chunks) ==
    {[id |-> ChunkId(doc_id, i - 1),
      document |-> chunks[i],
      metadata |-> [doc_id |-> doc_id, chunk_index |-> i - 1]] : i \in 1..Len(chunks)}

\* rag_service.py:121-125  collection.add acknowledged: records whose id is
\* already stored are left as they are
CollectionAdd(coll, records) ==
    coll \cup {r \in records : \A c \in coll : c.id # r.id}

----------------------------------------------------------------------------
(* State *)

VARIABLES
    documents,    \* the documents table: documents[d] is the committed row of id d
    rag_service,  \* main.py:54  TRUE: a RAGService, FALSE: None
    collection,   \* the Chroma collection: a set of chunk records
    run,          \* run[d]: the background task process_and_index_document(d, ..)
    log,          \* log[d]: the calls the run of d has made so far
    svc           \* the last direct call of a service or endpoint and its outcome

vars == <<documents, rag_service, collection, run, log, svc>>

\* s repeated n times
Rep(s, n) == [i \in 1..(n * Len(s)) |-> s[((i - 1) % Len(s)) + 1]]

\* the uploaded files the model draws from
Files == {"good.pdf", "short.pdf", "empty.pdf"}

\* pdf_processor.py:21-42  the text extract_text returns for a file
GoodText == Rep(<<"w", "o", "r", "d", " ">>, 12)

ShortText == Rep(<<"A", ".", " ">>, 5)

FileText(f) ==
    CASE f = "good.pdf"  -> GoodText
      [] f = "short.pdf" -> ShortText
      [] OTHER           -> <<>>

\* pdf_processor.py:44-46  what extract_text raises
ExtractErrors(f) ==
    {"Failed to extract text from PDF: EOF marker not found in " \o f}

\* pdf_processor.py:21-46  extract_text returns a text or raises
ExtractOutcomes(f) ==
    {[raised |-> FALSE, text |-> FileText(f), cause |-> ""]}
    \cup {[raised |-> TRUE, text |-> <<>>, cause |-> c] : c \in ExtractErrors(f)}

\* what a failing db.query / db.commit raises
DbError == "(sqlite3.OperationalError) database is locked"

\* rag_service.py:134  RuntimeError(f"Failed to index document {doc_id}")
IndexError(doc_id) == "Failed to index document " \o ToString(doc_id)

\* main.py:258-263  the row upload_pdf stores
NewDocument(f) ==
    [filename |-> f, file_path |-> f, content |-> <<>>,
     status |-> "uploaded", error_message |-> None]

\* main.py:185-190  the locals of a task that has not started; failed_at is
\* the commit that raised, "" while none has
NewRun(f) ==
    [pc |-> "scheduled", file_path |-> f,
     text_content |-> <<>>, success |-> FALSE, error_msg |-> "",
     attempt |-> 0, add_attempt |-> 0, chunks |-> <<>>,
     final_status |-> "", rag_error |-> None, exc |-> "", failed_at |-> ""]

NewLog ==
    [extract_calls |-> 0, extract_raised |-> None, extract_returned |-> FALSE,
     index_calls |-> 0, index_failures |-> 0,
     index_returned |-> FALSE, add_calls |-> 0, acked |-> FALSE,
     sleeps |-> <<>>, backoffs |-> <<>>, save_raised |-> FALSE]

\* no direct call has been made yet; a call record names the operation, its
\* arguments, what it returned or raised, and the collaborators it called
NoCall ==
    [op |-> "none", doc_id |-> 0, text |-> <<>>, query |-> "", k |-> 0,
     result |-> <<>>, raised |-> None, store_failed |-> FALSE,
     found |-> 0, response |-> "", calls |-> {},
     retrieved |-> <<>>, failures |-> {}, is_valid |-> FALSE,
     normalized |-> <<>>, chunk_size |-> 0, overlap |-> 0, start |-> 0,
     pc |-> "", windows |-> <<>>, spans |-> <<>>,
     status_code |-> 0, size |-> 0]

DocIds == 1..Len(documents)

Terminal == {"failed", "indexed", "processed"}

Init ==
    /\ documents = <<>>
    /\ rag_service \in BOOLEAN
    /\ collection = {}
    /\ run = <<>>
    /\ log = <<>>
    /\ svc = NoCall

----------------------------------------------------------------------------
(* main.py: helpers of the background task *)

\* extract_and_validate_text with an except clause that drops str(e)
extract_and_validate_text_no_cause(outcome) ==
    IF outcome.raised
    THEN [text_content |-> <<>>, success |-> FALSE,
          error_msg |-> "Text extraction failed"]
    ELSE LET validation_result == validate_extracted_text(outcome.text)
         IN  IF ~validation_result.is_valid
             THEN [text_content |-> <<>>, success |-> FALSE,
                   error_msg |-> "Text extraction validation failed: "
                                 \o validation_result.reason]
             ELSE [text_content |-> outcome.text, success |-> TRUE, error_msg |-> ""]

\* main.py:148-163
extract_and_validate_text(outcome) ==
    IF outcome.raised
    THEN [text_content |-> <<>>, success |-> FALSE,
          error_msg |-> "Text extraction failed: " \o outcome.cause]
    ELSE LET validation_result == validate_extracted_text(outcome.text)
         IN  IF ~validation_result.is_valid
             THEN [text_content |-> <<>>, success |-> FALSE,
                   error_msg |-> "Text extraction validation failed: "
                                 \o validation_result.reason]
             ELSE IF strip(outcome.text) = <<>>
             THEN [text_content |-> <<>>, success |-> FALSE,
                   error_msg |-> "No text could be extracted from the PDF"]
             ELSE [text_content |-> outcome.text, success |-> TRUE, error_msg |-> ""]

\* a missing service reported as a successful indexing
UnavailableResultIndexed ==
    [final_status |-> "indexed", rag_error |-> None]

\* main.py:169
UnavailableResult ==
    [final_status |-> "processed",
     rag_error |-> Some("RAG service not available, document not indexed")]

\* an indexed result that keeps an error message
IndexedResultStaleError ==
    [final_status |-> "indexed",
     rag_error |-> Some("RAG indexing failed after retries")]

\* main.py:175
IndexedResult == [final_status |-> "indexed", rag_error |-> None]

\* exhaustion reported as a failure of the whole run
ExhaustedResultFailed(e) ==
    [final_status |-> "failed",
     rag_error |-> Some("RAG indexing failed after retries: " \o e)]

\* exhaustion reported as indexed
ExhaustedResultIndexed(e) == [final_status |-> "indexed", rag_error |-> None]

\* main.py:180
ExhaustedResult(e) ==
    [final_status |-> "processed",
     rag_error |-> Some("RAG indexing failed after retries: " \o e)]

\* a backoff that starts at 2 seconds
Pow2FromTwo(n) == IF n = 0 THEN 2 ELSE 4

\* main.py:178  2 ** attempt
Pow2(n) == IF n = 0 THEN 1 ELSE IF n = 1 THEN 2 ELSE 4

\* the session's document object after the assignments that precede the
\* commit at pc (main.py:198, 204-205, 210, 216-217), row being the object
\* before them
Assigned(pc, r, row) ==
    CASE pc = "mark_processing" -> [row EXCEPT !.status = "processing"]
      [] pc = "mark_failed"     -> [row EXCEPT !.status = "failed",
                                               !.error_message = Some(r.error_msg)]
      [] pc = "save_content"    -> [row EXCEPT !.content = r.text_content]
      [] pc = "finalize"        -> [row EXCEPT !.status = r.final_status,
                                               !.error_message = r.rag_error]
      [] OTHER                  -> row

\* db.commit() succeeds: the session's object becomes the committed row
Commit(d, obj) == documents' = [documents EXCEPT ![d] = obj]

----------------------------------------------------------------------------
(* Actions *)

\* main.py:272-278  the DocumentResponse of an accepted upload: the id and the
\* status of the refreshed row
UploadResponse(doc_id, row) ==
    [NoCall EXCEPT !.op = "upload_pdf", !.doc_id = doc_id,
                   !.response = row.status, !.calls = {"save", "add_task"}]

\* upload_pdf that starts processing the document before it responds
upload_pdf_inline(f, limit) ==
    /\ Len(documents) < limit
    /\ documents' = Append(documents,
                           [NewDocument(f) EXCEPT !.status = "processing"])
    /\ run' = Append(run, [NewRun(f) EXCEPT !.pc = "extract"])
    /\ log' = Append(log, NewLog)
    /\ svc' = UploadResponse(Len(documents) + 1,
                             [NewDocument(f) EXCEPT !.status = "processing"])
    /\ UNCHANGED <<rag_service, collection>>

\* main.py:237-278  an accepted upload: one row, one task added to the
\* background tasks (which start after the response), the response
upload_pdf(f, limit) ==
    /\ Len(documents) < limit
    /\ documents' = Append(documents, NewDocument(f))
    /\ run' = Append(run, NewRun(f))
    /\ log' = Append(log, NewLog)
    /\ svc' = UploadResponse(Len(documents) + 1, NewDocument(f))
    /\ UNCHANGED <<rag_service, collection>>

\* main.py:193-196  the task loads its document
LoadDocument(d) ==
    /\ run[d].pc = "scheduled"
    /\ d \in DocIds
    /\ run' = [run EXCEPT ![d].pc = "mark_processing"]
    /\ UNCHANGED <<documents, rag_service, collection, log, svc>>

\* MarkProcessing without the db.commit() of main.py:199
MarkProcessingNoCommit(d) ==
    /\ run[d].pc = "mark_processing"
    /\ run' = [run EXCEPT ![d].pc = "extract"]
    /\ UNCHANGED <<documents, rag_service, collection, log, svc>>

\* main.py:198-199
MarkProcessing(d) ==
    /\ run[d].pc = "mark_processing"
    /\ Commit(d, Assigned("mark_processing", run[d], documents[d]))
    /\ run' = [run EXCEPT ![d].pc = "extract"]
    /\ UNCHANGED <<rag_service, collection, log, svc>>

\* an extraction that is tried again, like the indexing, when it fails
ExtractAndValidateWithRetry(d) ==
    /\ run[d].pc = "extract"
    /\ \E outcome \in ExtractOutcomes(run[d].file_path) :
          LET res == extract_and_validate_text(outcome)
              again == ~res.success /\ log[d].extract_calls < max_index_retries - 1
          IN  /\ run' = [run EXCEPT ![d].text_content = res.text_content,
                                    ![d].success = res.success,
                                    ![d].error_msg = res.error_msg,
                                    ![d].pc = IF res.success THEN "save_content"
                                              ELSE IF again THEN "extract"
                                              ELSE "mark_failed"]
              /\ log' = [log EXCEPT
                           ![d].extract_calls = @ + 1,
                           ![d].extract_raised =
                               IF outcome.raised THEN Some(outcome.cause) ELSE None,
                           ![d].extract_returned = ~outcome.raised]
    /\ UNCHANGED <<documents, rag_service, collection, svc>>

\* main.py:202  _extract_and_validate_text(pdf_processor, file_path)
ExtractAndValidate(d) ==
    /\ run[d].pc = "extract"
    /\ \E outcome \in ExtractOutcomes(run[d].file_path) :
          LET res == extract_and_validate_text(outcome)
          IN  /\ run' = [run EXCEPT ![d].text_content = res.text_content,
                                    ![d].success = res.success,
                                    ![d].error_msg = res.error_msg,
                                    ![d].pc = IF res.success THEN "save_content"
                                              ELSE "mark_failed"]
              /\ log' = [log EXCEPT
                           ![d].extract_calls = @ + 1,
                           ![d].extract_raised =
                               IF outcome.raised THEN Some(outcome.cause) ELSE None,
                           ![d].extract_returned = ~outcome.raised]
    /\ UNCHANGED <<documents, rag_service, collection, svc>>

\* MarkFailed without the return of main.py:207
MarkFailedNoReturn(d) ==
    /\ run[d].pc = "mark_failed"
    /\ Commit(d, Assigned("mark_failed", run[d], documents[d]))
    /\ run' = [run EXCEPT ![d].pc = "save_content"]
    /\ UNCHANGED <<rag_service, collection, log, svc>>

\* MarkFailed that stores the status without the error message
MarkFailedStatusOnly(d) ==
    /\ run[d].pc = "mark_failed"
    /\ Commit(d, [documents[d] EXCEPT !.status = "failed"])
    /\ run' = [run EXCEPT ![d].pc = "done"]
    /\ UNCHANGED <<rag_service, collection, log, svc>>

\* main.py:203-207
MarkFailed(d) ==
    /\ run[d].pc = "mark_failed"
    /\ Commit(d, Assigned("mark_failed", run[d], documents[d]))
    /\ run' = [run EXCEPT ![d].pc = "done"]
    /\ UNCHANGED <<rag_service, collection, log, svc>>

\* SaveContent that commits only the head of the extracted text
SaveContentPartial(d) ==
    /\ run[d].pc = "save_content"
    /\ Commit(d, [documents[d] EXCEPT
                    !.content = SubSeq(run[d].text_content, 1, MinTextLength)])
    /\ run' = [run EXCEPT ![d].pc = "index"]
    /\ UNCHANGED <<rag_service, collection, log, svc>>

\* main.py:210-211
SaveContent(d) ==
    /\ run[d].pc = "save_content"
    /\ Commit(d, Assigned("save_content", run[d], documents[d]))
    /\ run' = [run EXCEPT ![d].pc = "index"]
    /\ UNCHANGED <<rag_service, collection, log, svc>>

\* main.py:168-169  no RAG service
IndexUnavailable(d) ==
    /\ run[d].pc = "index"
    /\ ~rag_service
    /\ run' = [run EXCEPT ![d].final_status = UnavailableResult.final_status,
                          ![d].rag_error = UnavailableResult.rag_error,
                          ![d].pc = "finalize"]
    /\ UNCHANGED <<documents, rag_service, collection, log, svc>>

\* main.py:172-174, rag_service.py:108-117  one call of index_document that
\* has split the text into chunks, up to its first collection.add
IndexDocumentOf(d, chunks) ==
    /\ run[d].pc = "index"
    /\ rag_service
    /\ IF chunks = <<>>
       THEN /\ run' = [run EXCEPT ![d].final_status = IndexedResult.final_status,
                                  ![d].rag_error = IndexedResult.rag_error,
                                  ![d].pc = "finalize"]
            /\ log' = [log EXCEPT ![d].index_calls = @ + 1,
                                  ![d].index_returned = TRUE]
       ELSE /\ run' = [run EXCEPT ![d].chunks = chunks,
                                  ![d].add_attempt = 0,
                                  ![d].pc = "add"]
            /\ log' = [log EXCEPT ![d].index_calls = @ + 1]
    /\ UNCHANGED <<documents, rag_service, collection, svc>>

\* main.py:172-174, rag_service.py:100-117  index_document(doc_id, text_content)
IndexDocument(d) ==
    IndexDocumentOf(d, chunk_text(run[d].text_content,
                                  DefaultChunkSize, DefaultOverlap))

\* rag_service.py:121-127, main.py:175  the store acknowledges the add
CollectionAddAck(d) ==
    /\ run[d].pc = "add"
    /\ collection' = CollectionAdd(collection, ChunkRecords(d, run[d].chunks))
    /\ run' = [run EXCEPT ![d].final_status = IndexedResult.final_status,
                          ![d].rag_error = IndexedResult.rag_error,
                          ![d].chunks = <<>>,
                          ![d].pc = "finalize"]
    /\ log' = [log EXCEPT ![d].add_calls = @ + 1,
                          ![d].acked = TRUE,
                          ![d].index_returned = TRUE]
    /\ UNCHANGED <<documents, rag_service, svc>>

\* a refused add that index_document raises at once, without retrying it
CollectionAddRaisesAtOnce(d) ==
    /\ run[d].pc = "add"
    /\ IF run[d].attempt < max_index_retries - 1
       THEN /\ run' = [run EXCEPT ![d].attempt = @ + 1,
                                  ![d].chunks = <<>>,
                                  ![d].pc = "index"]
            /\ log' = [log EXCEPT ![d].add_calls = @ + 1,
                                  ![d].index_failures = @ + 1,
                                  ![d].sleeps = Append(@, Pow2(run[d].attempt)),
                                  ![d].backoffs = Append(@, Pow2(run[d].attempt))]
       ELSE /\ run' = [run EXCEPT
                         ![d].final_status = ExhaustedResult(IndexError(d)).final_status,
                         ![d].rag_error = ExhaustedResult(IndexError(d)).rag_error,
                         ![d].chunks = <<>>,
                         ![d].pc = "finalize"]
            /\ log' = [log EXCEPT ![d].add_calls = @ + 1,
                                  ![d].index_failures = @ + 1]
    /\ UNCHANGED <<documents, rag_service, collection, svc>>

\* rag_service.py:128-134, main.py:176-180  the store raises on the add
CollectionAddRaises(d) ==
    /\ run[d].pc = "add"
    /\ IF run[d].add_attempt < max_retries - 1
       THEN \* rag_service.py:130-131  time.sleep(1), next add
            /\ run' = [run EXCEPT ![d].add_attempt = @ + 1]
            /\ log' = [log EXCEPT ![d].add_calls = @ + 1,
                                  ![d].sleeps = Append(@, 1)]
       ELSE \* rag_service.py:134  index_document raises
            IF run[d].attempt < max_index_retries - 1
            THEN \* main.py:177-178  backoff, next attempt
                 /\ run' = [run EXCEPT ![d].attempt = @ + 1,
                                       ![d].chunks = <<>>,
                                       ![d].pc = "index"]
                 /\ log' = [log EXCEPT ![d].add_calls = @ + 1,
                                       ![d].index_failures = @ + 1,
                                       ![d].sleeps = Append(@, Pow2(run[d].attempt)),
                                       ![d].backoffs = Append(@, Pow2(run[d].attempt))]
            ELSE \* main.py:180
                 /\ run' = [run EXCEPT
                              ![d].final_status = ExhaustedResult(IndexError(d)).final_status,
                              ![d].rag_error = ExhaustedResult(IndexError(d)).rag_error,
                              ![d].chunks = <<>>,
                              ![d].pc = "finalize"]
                 /\ log' = [log EXCEPT ![d].add_calls = @ + 1,
                                       ![d].index_failures = @ + 1]
    /\ UNCHANGED <<documents, rag_service, collection, svc>>

\* main.py:216-218
Finalize(d) ==
    /\ run[d].pc = "finalize"
    /\ Commit(d, Assigned("finalize", run[d], documents[d]))
    /\ run' = [run EXCEPT ![d].pc = "done"]
    /\ UNCHANGED <<rag_service, collection, log, svc>>

\* the steps of the background tasks
Steps ==
    \/ \E d \in DocIds : LoadDocument(d)
    \/ \E d \in DocIds : MarkProcessing(d)
    \/ \E d \in DocIds : ExtractAndValidate(d)
    \/ \E d \in DocIds : MarkFailed(d)
    \/ \E d \in DocIds : SaveContent(d)
    \/ \E d \in DocIds : IndexUnavailable(d)
    \/ \E d \in DocIds : IndexDocument(d)
    \/ \E d \in DocIds : CollectionAddAck(d)
    \/ \E d \in DocIds : CollectionAddRaises(d)
    \/ \E d \in DocIds : Finalize(d)

Next ==
    \/ \E f \in Files : upload_pdf(f, MaxDocs)
    \/ Steps

\* the pipeline over a record store whose query and commit always succeed
Spec == Init /\ [][Next]_vars

----------------------------------------------------------------------------
(* The record store may fail: db.query and db.commit can raise *)

\* main.py:193 raises: control passes to the handler of main.py:222
QueryRaises(d) ==
    /\ run[d].pc = "scheduled"
    /\ run' = [run EXCEPT ![d].exc = DbError, ![d].pc = "handler"]
    /\ log' = [log EXCEPT ![d].save_raised = TRUE]
    /\ UNCHANGED <<documents, rag_service, collection, svc>>

\* main.py:199, 206, 211, 218  db.commit() raises: nothing is committed, the
\* session's object keeps its pending changes, control passes to main.py:222
CommitRaises(d) ==
    /\ run[d].pc \in {"mark_processing", "mark_failed", "save_content", "finalize"}
    /\ run' = [run EXCEPT ![d].failed_at = run[d].pc,
                          ![d].exc = DbError,
                          ![d].pc = "handler"]
    /\ log' = [log EXCEPT ![d].save_raised = TRUE]
    /\ UNCHANGED <<documents, rag_service, collection, svc>>

\* main.py:225-228  the object the handler's query returns, with the pending
\* changes of the commit that raised, set to failed
HandlerDocument(d) ==
    [Assigned(run[d].failed_at, run[d], documents[d])
        EXCEPT !.status = "failed", !.error_message = Some(run[d].exc)]

\* main.py:225, 230-231  the session was never rolled back (or the store is
\* still failing): the handler's query raises and the bare except swallows it
HandlerQueryRaises(d) ==
    /\ run[d].pc = "handler"
    /\ run' = [run EXCEPT ![d].pc = "done"]
    /\ UNCHANGED <<documents, rag_service, collection, log, svc>>

\* main.py:225-229  the handler's query and commit succeed
HandlerMarkFailed(d) ==
    /\ run[d].pc = "handler"
    /\ Commit(d, HandlerDocument(d))
    /\ run' = [run EXCEPT ![d].pc = "done"]
    /\ UNCHANGED <<rag_service, collection, log, svc>>

\* main.py:229-231  the handler's commit raises and the bare except swallows it
HandlerCommitRaises(d) ==
    /\ run[d].pc = "handler"
    /\ run' = [run EXCEPT ![d].pc = "done"]
    /\ UNCHANGED <<documents, rag_service, collection, log, svc>>

NextStoreFault ==
    \/ \E f \in Files : upload_pdf(f, MaxFaultDocs)
    \/ Steps
    \/ \E d \in DocIds : QueryRaises(d)
    \/ \E d \in DocIds : CommitRaises(d)
    \/ \E d \in DocIds : HandlerQueryRaises(d)
    \/ \E d \in DocIds : HandlerMarkFailed(d)
    \/ \E d \in DocIds : HandlerCommitRaises(d)

\* the pipeline over a record store whose query and commit may raise
SpecStoreFault == Init /\ [][NextStoreFault]_vars

\* the chunks index_document makes of each file's text
FileChunks ==
    [f \in Files |-> chunk_text(FileText(f), DefaultChunkSize, DefaultOverlap)]

\* a step of the task of document d; the text the task indexes is the text
\* of its file
RunStep(d) ==
    /\ d \in DocIds
    /\ \/ LoadDocument(d) \/ MarkProcessing(d) \/ ExtractAndValidate(d)
       \/ MarkFailed(d) \/ SaveContent(d) \/ IndexUnavailable(d)
       \/ IndexDocumentOf(d, FileChunks[run[d].file_path])
       \/ CollectionAddAck(d) \/ CollectionAddRaises(d)
       \/ Finalize(d)
       \/ QueryRaises(d) \/ CommitRaises(d)
       \/ HandlerQueryRaises(d) \/ HandlerMarkFailed(d) \/ HandlerCommitRaises(d)

\* main.py:270  every task added to the background tasks is run, and each
\* call it makes returns or raises: a task that can step eventually steps
FairSpecStoreFault ==
    SpecStoreFault /\ \A d \in 1..MaxFaultDocs : WF_vars(RunStep(d))

----------------------------------------------------------------------------
(* Direct calls: the task on an id without a row, the RAGService methods,
   the query endpoint *)

\* the document ids direct calls are made with
ServiceDocIds == 1..MaxServiceId

\* the texts index_document is called with
BlankText == <<" ", "\n", " ">>

ServiceTexts == {GoodText, ShortText, BlankText}

\* a text of 900 characters, which the defaults split into two chunks
LongText == Rep(<<"w", "o", "r", "d", " ">>, 180)

\* the texts of the calls that look at the order of the chunks
IndexTexts == {GoodText, LongText}

\* rag_service.py:107  self.chunk_text(text), tabulated for these texts
ServiceChunks ==
    [t \in ServiceTexts \cup IndexTexts |->
        chunk_text(t, DefaultChunkSize, DefaultOverlap)]

\* the queries and top_k values of search and /api/process
Queries == {"word"}

TopKs == {0, 1, 2}

\* what the Chroma collection raises when a call on it fails
StoreError == "chroma: database error"

\* a call record for op
Call(op) == [NoCall EXCEPT !.op = op]

\* the records of the collection whose metadata doc_id is doc_id
\* (collection.get(where={"doc_id": doc_id}))
Where(coll, doc_id) == {c \in coll : c.metadata.doc_id = doc_id}

\* the task raising when its document is missing
RunAbsentRaises(doc_id, f) ==
    /\ doc_id \notin DocIds
    /\ svc' = [Call("process_and_index_document") EXCEPT
                 !.doc_id = doc_id, !.calls = {"get"},
                 !.raised = Some("Document not found")]
    /\ UNCHANGED <<documents, rag_service, collection, run, log>>

\* main.py:185-196, 232-235  process_and_index_document(doc_id, f) when the
\* query finds no row: log, return, close the session
RunAbsent(doc_id, f) ==
    /\ doc_id \notin DocIds
    /\ svc' = [Call("process_and_index_document") EXCEPT
                 !.doc_id = doc_id, !.calls = {"get"}]
    /\ UNCHANGED <<documents, rag_service, collection, run, log>>

\* index_document that returns without handing the chunks to the store
index_document_no_add(doc_id, text) ==
    /\ rag_service
    /\ svc' = [Call("index_document") EXCEPT
                 !.doc_id = doc_id, !.text = text,
                 !.result = ServiceChunks[text]]
    /\ UNCHANGED <<documents, rag_service, collection, run, log>>

\* index_document that returns normally when every add has raised
index_document_swallows_failure(doc_id, text) ==
    /\ rag_service
    /\ LET chunks == ServiceChunks[text]
       IN  IF chunks = <<>>
           THEN /\ svc' = [Call("index_document") EXCEPT
                             !.doc_id = doc_id, !.text = text, !.calls = {}]
                /\ UNCHANGED collection
           ELSE \/ /\ collection' = CollectionAdd(collection,
                                                  ChunkRecords(doc_id, chunks))
                   /\ svc' = [Call("index_document") EXCEPT
                                !.doc_id = doc_id, !.text = text,
                                !.result = chunks, !.calls = {"add"}]
                \/ /\ svc' = [Call("index_document") EXCEPT
                                !.doc_id = doc_id, !.text = text, !.calls = {"add"}]
                   /\ UNCHANGED collection
    /\ UNCHANGED <<documents, rag_service, run, log>>

\* rag_service.py:100-138  index_document(doc_id, text) called on the service:
\* no chunks, an add acknowledged within max_retries attempts, or every add
\* raising; result records the chunks handed to the store
index_document(doc_id, text) ==
    /\ rag_service
    /\ LET chunks == ServiceChunks[text]
       IN  IF chunks = <<>>
           THEN /\ svc' = [Call("index_document") EXCEPT
                             !.doc_id = doc_id, !.text = text, !.calls = {}]
                /\ UNCHANGED collection
           ELSE \/ /\ collection' = CollectionAdd(collection,
                                                  ChunkRecords(doc_id, chunks))
                   /\ svc' = [Call("index_document") EXCEPT
                                !.doc_id = doc_id, !.text = text,
                                !.result = chunks, !.calls = {"add"}]
                \/ /\ svc' = [Call("index_document") EXCEPT
                                !.doc_id = doc_id, !.text = text, !.calls = {"add"},
                                !.raised = Some(IndexError(doc_id))]
                   /\ UNCHANGED collection
    /\ UNCHANGED <<documents, rag_service, run, log>>

\* delete_document that reports a document without chunks as an error
delete_document_strict(doc_id) ==
    /\ rag_service
    /\ LET found == Where(collection, doc_id)
       IN  /\ collection' = collection \ found
           /\ svc' = [Call("delete_document") EXCEPT
                        !.doc_id = doc_id,
                        !.raised = IF found = {} THEN Some("No chunks found")
                                   ELSE None,
                        !.calls = {"get", "delete"}]
    /\ UNCHANGED <<documents, rag_service, run, log>>

\* rag_service.py:164-182  delete_document(doc_id): the chunks found by
\* metadata are deleted by id; a store failure is logged and re-raised
delete_document(doc_id) ==
    /\ rag_service
    /\ \/ LET found == Where(collection, doc_id)
          IN  /\ collection' = collection \ {c \in collection :
                                                \E r \in found : r.id = c.id}
              /\ svc' = [Call("delete_document") EXCEPT
                           !.doc_id = doc_id,
                           !.calls = IF found = {} THEN {"get"}
                                     ELSE {"get", "delete"}]
       \/ /\ svc' = [Call("delete_document") EXCEPT
                       !.doc_id = doc_id, !.calls = {"get"},
                       !.store_failed = TRUE, !.raised = Some(StoreError)]
          /\ UNCHANGED collection
    /\ UNCHANGED <<documents, rag_service, run, log>>

\* the chunk texts of records sorted by chunk_index
SortedChunks(records) ==
    [i \in 1..Cardinality(records) |->
        (CHOOSE c \in records :
            Cardinality({x \in records :
                            x.metadata.chunk_index < c.metadata.chunk_index}) = i - 1
        ).document]

\* rag_service.py:184-206  get_document_chunks(doc_id)
get_document_chunks(doc_id) ==
    /\ rag_service
    /\ \/ svc' = [Call("get_document_chunks") EXCEPT
                    !.doc_id = doc_id, !.calls = {"get"},
                    !.result = SortedChunks(Where(collection, doc_id))]
       \/ svc' = [Call("get_document_chunks") EXCEPT
                    !.doc_id = doc_id, !.calls = {"get"}, !.store_failed = TRUE]
    /\ UNCHANGED <<documents, rag_service, collection, run, log>>

\* collection.query(n_results=n): the n nearest records in some order of
\* similarity, n capped by the number of records
Rankings(coll, n) ==
    LET m == IF n < Cardinality(coll) THEN n ELSE Cardinality(coll)
    IN  IF m = 0 THEN {<<>>}
        ELSE {[i \in 1..m |-> s[i].document] :
                 s \in {t \in [1..m -> coll] :
                           \A i, j \in 1..m : i # j => t[i] # t[j]}}

\* rag_service.py:140-162  what search(query, k) returns: the texts the store
\* ranks, or [] when the store raises (it raises for k < 1)
SearchOutcomes(coll, k) ==
    {[result |-> <<>>, store_failed |-> TRUE]}
    \cup (IF k < 1 THEN {}
          ELSE {[result |-> r, store_failed |-> FALSE] : r \in Rankings(coll, k)})

\* search that lets the store's exception through
search_raising(query, k) ==
    /\ rag_service
    /\ \E o \in SearchOutcomes(collection, k) :
          svc' = [Call("search") EXCEPT
                    !.query = query, !.k = k, !.calls = {"query"},
                    !.result = o.result, !.store_failed = o.store_failed,
                    !.raised = IF o.store_failed THEN Some(StoreError) ELSE None]
    /\ UNCHANGED <<documents, rag_service, collection, run, log>>

\* rag_service.py:140-162  search(query, k) called on the service
search(query, k) ==
    /\ rag_service
    /\ \E o \in SearchOutcomes(collection, k) :
          svc' = [Call("search") EXCEPT
                    !.query = query, !.k = k, !.calls = {"query"},
                    !.result = o.result, !.store_failed = o.store_failed]
    /\ UNCHANGED <<documents, rag_service, collection, run, log>>

\* main.py:349  the response when no document has been uploaded
NoDocumentsMessage ==
    "No documents have been uploaded yet. Please upload some PDF documents first."

\* main.py:356  the response when documents exist but no chunk was found
NoRelevantContentMessage ==
    "No relevant content found in the uploaded documents for this query. "
    \o "Try rephrasing your question or uploading more relevant documents."

\* llm_service.py:43-98  what generate_response returns: the completion, or
\* one of its own error texts
LLMResponses ==
    {"completion",
     "LLM service is not configured. Please set GROK_API_KEY environment variable.",
     "Error generating response: Connection error."}

\* main.py:336-345  relevant_chunks: the result of search, [] without a
\* service; failures names what went wrong on the way
RetrievedOutcomes(k) ==
    IF rag_service
    THEN {[result |-> o.result, calls |-> {"search"},
           failures |-> IF o.store_failed THEN {"search"} ELSE {}] :
             o \in SearchOutcomes(collection, k)}
    ELSE {[result |-> <<>>, calls |-> {}, failures |-> {"index_unavailable"}]}

\* what a failing call of generate_response raises into main.py:373
GenerateError == "generate_response failed"

\* main.py:366-375  the call of generate_response in its try block: the text
\* it returns (a completion or one of its own error texts), or an exception
GenerateOutcomes ==
    {[raised |-> FALSE, text |-> r] : r \in LLMResponses}
    \cup {[raised |-> TRUE, text |-> GenerateError]}

\* main.py:375  the response when generate_response raised
GenerationFailedMessage(e) ==
    "Error generating LLM response: " \o e
    \o ". Retrieved context chunks are available below."

\* the text generate_response returns when it did not get a completion
GenerateErrorTexts == LLMResponses \ {"completion"}

\* process_document that asks the language model even without chunks
process_document_always_generates(query, k) ==
    /\ \E o \in RetrievedOutcomes(k), answer \in LLMResponses :
          svc' = [Call("process_document") EXCEPT
                    !.query = query, !.k = k,
                    !.found = Len(o.result),
                    !.result = o.result,
                    !.response = answer,
                    !.calls = o.calls \cup {"generate"}]
    /\ UNCHANGED <<documents, rag_service, collection, run, log>>

\* process_document without the try block of main.py:367-375: a failing
\* generate_response reaches main.py:387-389 and becomes an HTTP 500
process_document_unguarded(query, k) ==
    /\ \E o \in RetrievedOutcomes(k) :
          IF o.result = <<>>
          THEN LET doc_count == Len(documents)
               IN  svc' = [Call("process_document") EXCEPT
                             !.query = query, !.k = k,
                             !.response = IF doc_count = 0
                                          THEN NoDocumentsMessage
                                          ELSE NoRelevantContentMessage,
                             !.calls = o.calls \cup {"count"},
                             !.failures = o.failures]
          ELSE \E g \in GenerateOutcomes :
                  svc' = [Call("process_document") EXCEPT
                            !.query = query, !.k = k,
                            !.found = Len(o.result),
                            !.retrieved = o.result,
                            !.result = IF g.raised THEN <<>> ELSE o.result,
                            !.response = IF g.raised THEN "" ELSE g.text,
                            !.raised = IF g.raised
                                       THEN Some("Error processing request: " \o g.text)
                                       ELSE None,
                            !.calls = o.calls \cup {"generate"},
                            !.failures = o.failures
                               \cup (IF g.raised \/ g.text \in GenerateErrorTexts
                                     THEN {"generate"} ELSE {})]
    /\ UNCHANGED <<documents, rag_service, collection, run, log>>

\* main.py:325-385  POST /api/process; retrieved is what search returned,
\* found its length, result the relevant_chunks of the response
process_document(query, k) ==
    /\ \E o \in RetrievedOutcomes(k) :
          IF o.result = <<>>
          THEN LET doc_count == Len(documents)
               IN  svc' = [Call("process_document") EXCEPT
                             !.query = query, !.k = k,
                             !.response = IF doc_count = 0
                                          THEN NoDocumentsMessage
                                          ELSE NoRelevantContentMessage,
                             !.calls = o.calls \cup {"count"},
                             !.failures = o.failures]
          ELSE \E g \in GenerateOutcomes :
                  svc' = [Call("process_document") EXCEPT
                            !.query = query, !.k = k,
                            !.found = Len(o.result),
                            !.retrieved = o.result,
                            !.result = o.result,
                            !.response = IF g.raised
                                         THEN GenerationFailedMessage(g.text)
                                         ELSE g.text,
                            !.calls = o.calls \cup {"generate"},
                            !.failures = o.failures
                               \cup (IF g.raised \/ g.text \in GenerateErrorTexts
                                     THEN {"generate"} ELSE {})]
    /\ UNCHANGED <<documents, rag_service, collection, run, log>>

----------------------------------------------------------------------------
(* main.py: _validate_extracted_text called on its own *)

\* the pieces the texts handed to the validation are made of: ten words,
\* one long word, special characters, one character repeated, blanks,
\* punctuation, blank lines
Blocks ==
    {Rep(<<"w", "o", "r", "d", "s", " ">>, 10),
     <<"a", "b", "c", "d", "e", "f", "g", "h", "i", "j", "k", "l", "m",
       "n", "o", "p", "q", "r", "s", "t", "u", "v", "w", "x", "y">>,
     Rep(<<"@", "#", "$", "%", "^", "&">>, 3),
     Rep(<<"x">>, RepeatCount + 1),
     <<" ", " ", " ">>,
     <<".", " ", ",", " ">>,
     Rep(<<"\n">>, RepeatCount + 1)}

RECURSIVE Concat(_)
Concat(bs) == IF bs = <<>> THEN <<>> ELSE Head(bs) \o Concat(Tail(bs))

\* the texts of at most MaxBlocks blocks
ValidateTexts ==
    {Concat(bs) : bs \in UNION {[1..n -> Blocks] : n \in 0..MaxBlocks}}

\* main.py:101-129  _validate_extracted_text(text) called once on a text
validate(text) ==
    /\ svc = NoCall
    /\ LET validation_result == validate_extracted_text(text)
       IN  svc' = [Call("validate_extracted_text") EXCEPT
                     !.text = text,
                     !.is_valid = validation_result.is_valid,
                     !.response = validation_result.reason]
    /\ UNCHANGED <<documents, rag_service, collection, run, log>>

NextValidate == \E text \in ValidateTexts : validate(text)

\* the validation applied to one text
SpecValidate == Init /\ [][NextValidate]_vars

----------------------------------------------------------------------------
(* rag_service.py: RAGService.chunk_text run step by step *)

\* chunk_text that takes a text for blank when its first character is
\* whitespace
ChunkCallChecksFirstCharacter(text, chunk_size, overlap) ==
    /\ svc = NoCall
    /\ svc' = IF text = <<>> \/ IsSpace(text[1])
              THEN [Call("chunk_text") EXCEPT
                      !.text = text, !.chunk_size = chunk_size,
                      !.overlap = overlap, !.pc = "returned"]
              ELSE [Call("chunk_text") EXCEPT
                      !.text = text, !.chunk_size = chunk_size,
                      !.overlap = overlap, !.normalized = Normalize(text),
                      !.start = 0, !.pc = "loop"]
    /\ UNCHANGED <<documents, rag_service, collection, run, log>>

\* rag_service.py:54-66  chunk_text(text, chunk_size, overlap) up to the
\* loop: a blank text returns [] at once, any other text is normalised and
\* start is 0
ChunkCall(text, chunk_size, overlap) ==
    /\ svc = NoCall
    /\ svc' = IF text = <<>> \/ strip(text) = <<>>
              THEN [Call("chunk_text") EXCEPT
                      !.text = text, !.chunk_size = chunk_size,
                      !.overlap = overlap, !.pc = "returned"]
              ELSE [Call("chunk_text") EXCEPT
                      !.text = text, !.chunk_size = chunk_size,
                      !.overlap = overlap, !.normalized = Normalize(text),
                      !.start = 0, !.pc = "loop"]
    /\ UNCHANGED <<documents, rag_service, collection, run, log>>

\* an iteration that moves start to end - overlap and no further
ChunkIterationNoProgress ==
    /\ svc.op = "chunk_text"
    /\ svc.pc = "loop"
    /\ svc.start < Len(svc.normalized)
    /\ \E end \in {WindowEnd(svc.normalized, svc.start, svc.chunk_size)} :
       \E piece \in {Slice(svc.normalized, svc.start, end)} :
       \E chunk \in {strip(piece)} :
       LET text == svc.normalized
           start == svc.start
           lead == Min({i \in 1..Len(piece) : ~IsSpace(piece[i])}) - 1
       IN  svc' = [svc EXCEPT
                     !.windows = Append(@, <<start, end>>),
                     !.result = IF chunk # <<>> THEN Append(@, chunk) ELSE @,
                     !.spans = IF chunk # <<>>
                               THEN Append(@, <<start + lead, start + lead + Len(chunk)>>)
                               ELSE @,
                     !.start = Max({start, end - svc.overlap})]
    /\ UNCHANGED <<documents, rag_service, collection, run, log>>

\* an iteration that starts the next window where this one ends
ChunkIterationNoOverlap ==
    /\ svc.op = "chunk_text"
    /\ svc.pc = "loop"
    /\ svc.start < Len(svc.normalized)
    /\ \E end \in {WindowEnd(svc.normalized, svc.start, svc.chunk_size)} :
       \E piece \in {Slice(svc.normalized, svc.start, end)} :
       \E chunk \in {strip(piece)} :
       LET text == svc.normalized
           start == svc.start
           lead == Min({i \in 1..Len(piece) : ~IsSpace(piece[i])}) - 1
       IN  svc' = [svc EXCEPT
                     !.windows = Append(@, <<start, end>>),
                     !.result = IF chunk # <<>> THEN Append(@, chunk) ELSE @,
                     !.spans = IF chunk # <<>>
                               THEN Append(@, <<start + lead, start + lead + Len(chunk)>>)
                               ELSE @,
                     !.start = Max({start + 1, end})]
    /\ UNCHANGED <<documents, rag_service, collection, run, log>>

\* an iteration that appends the slice as it is, without trimming it
ChunkIterationUntrimmed ==
    /\ svc.op = "chunk_text"
    /\ svc.pc = "loop"
    /\ svc.start < Len(svc.normalized)
    /\ \E end \in {WindowEnd(svc.normalized, svc.start, svc.chunk_size)} :
       \E piece \in {Slice(svc.normalized, svc.start, end)} :
       LET start == svc.start
       IN  svc' = [svc EXCEPT
                     !.windows = Append(@, <<start, end>>),
                     !.result = IF piece # <<>> THEN Append(@, piece) ELSE @,
                     !.spans = IF piece # <<>>
                               THEN Append(@, <<start, start + Len(piece)>>)
                               ELSE @,
                     !.start = Max({start + 1, end - svc.overlap})]
    /\ UNCHANGED <<documents, rag_service, collection, run, log>>

\* an iteration that keeps no chunk of a window reaching the end of the text
ChunkIterationDropsLast ==
    /\ svc.op = "chunk_text"
    /\ svc.pc = "loop"
    /\ svc.start < Len(svc.normalized)
    /\ \E end \in {WindowEnd(svc.normalized, svc.start, svc.chunk_size)} :
       \E piece \in {Slice(svc.normalized, svc.start, end)} :
       \E chunk \in {strip(piece)} :
       LET text == svc.normalized
           start == svc.start
           lead == Min({i \in 1..Len(piece) : ~IsSpace(piece[i])}) - 1
           kept == chunk # <<>> /\ end < Len(text)
       IN  svc' = [svc EXCEPT
                     !.windows = Append(@, <<start, end>>),
                     !.result = IF kept THEN Append(@, chunk) ELSE @,
                     !.spans = IF kept
                               THEN Append(@, <<start + lead, start + lead + Len(chunk)>>)
                               ELSE @,
                     !.start = Max({start + 1, end - svc.overlap})]
    /\ UNCHANGED <<documents, rag_service, collection, run, log>>

\* rag_service.py:68-96  one iteration of the while loop: the window
\* <<start, end>>, its trimmed text appended if non-empty (spans holds the
\* 0-based positions [a, b) of the normalized text it covers), and the next
\* start
ChunkIteration ==
    /\ svc.op = "chunk_text"
    /\ svc.pc = "loop"
    /\ svc.start < Len(svc.normalized)
    /\ \E end \in {WindowEnd(svc.normalized, svc.start, svc.chunk_size)} :
       \E piece \in {Slice(svc.normalized, svc.start, end)} :
       \E chunk \in {strip(piece)} :
       LET text == svc.normalized
           start == svc.start
           lead == Min({i \in 1..Len(piece) : ~IsSpace(piece[i])}) - 1
       IN  svc' = [svc EXCEPT
                     !.windows = Append(@, <<start, end>>),
                     !.result = IF chunk # <<>> THEN Append(@, chunk) ELSE @,
                     !.spans = IF chunk # <<>>
                               THEN Append(@, <<start + lead, start + lead + Len(chunk)>>)
                               ELSE @,
                     !.start = Max({start + 1, end - svc.overlap})]
    /\ UNCHANGED <<documents, rag_service, collection, run, log>>

\* rag_service.py:68, 98  the loop condition fails: return chunks
ChunkReturn ==
    /\ svc.op = "chunk_text"
    /\ svc.pc = "loop"
    /\ svc.start >= Len(svc.normalized)
    /\ svc' = [svc EXCEPT !.pc = "returned"]
    /\ UNCHANGED <<documents, rag_service, collection, run, log>>

\* the characters of the short texts
ChunkAlphabet == {"a", ".", " ", "\n"}

\* the texts of at most MaxChunkText characters
ChunkTexts == UNION {[1..n -> ChunkAlphabet] : n \in 0..MaxChunkText}

NextChunk ==
    \/ \E text \in ChunkTexts, chunk_size \in 1..MaxChunkSize, overlap \in 0..MaxOverlap :
          ChunkCall(text, chunk_size, overlap)
    \/ ChunkIteration
    \/ ChunkReturn

\* chunk_text called once on a short text, with every chunk_size and
\* overlap up to the bounds
SpecChunk == Init /\ [][NextChunk]_vars

\* the loop, once entered, keeps running
FairSpecChunk == SpecChunk /\ WF_vars(ChunkIteration) /\ WF_vars(ChunkReturn)

\* the length of the long documents
DocLength == 2 * DefaultChunkSize

\* where a long document may have a sentence end or a paragraph break
DocMarkPositions == {403, 548, 598, 998, 1003, 1358, 1398}

\* the choices of at most MaxMarks marks at distinct positions
MarkSets ==
    {ms \in SUBSET (DocMarkPositions \X {"sentence", "paragraph"}) :
        /\ Cardinality(ms) <= MaxMarks
        /\ \A m1, m2 \in ms : m1[1] = m2[1] => m1 = m2}

\* a document of DocLength characters: the words "word " with a final full
\* stop, ". " at the sentence marks and a blank line at the paragraph marks
DocOf(ms) ==
    [i \in 1..DocLength |->
        IF \E m \in ms : m[1] = i - 1
        THEN IF <<i - 1, "sentence">> \in ms THEN "." ELSE "\n"
        ELSE IF \E m \in ms : m[1] = i - 2
        THEN IF <<i - 2, "sentence">> \in ms THEN " " ELSE "\n"
        ELSE IF i = DocLength THEN "."
        ELSE <<"w", "o", "r", "d", " ">>[((i - 1) % 5) + 1]]

NextChunkDoc ==
    \/ \E ms \in MarkSets : ChunkCall(DocOf(ms), DefaultChunkSize, DefaultOverlap)
    \/ ChunkIteration
    \/ ChunkReturn

\* chunk_text called once on a long document with its default parameters
SpecChunkDoc == Init /\ [][NextChunkDoc]_vars

NextService ==
    \/ \E f \in Files : upload_pdf(f, MaxServiceDocs)
    \/ \E doc_id \in ServiceDocIds, f \in Files : RunAbsent(doc_id, f)
    \/ \E doc_id \in ServiceDocIds, text \in ServiceTexts : index_document(doc_id, text)
    \/ \E doc_id \in ServiceDocIds : delete_document(doc_id)
    \/ \E doc_id \in ServiceDocIds : get_document_chunks(doc_id)
    \/ \E query \in Queries, k \in TopKs : search(query, k)
    \/ \E query \in Queries, k \in TopKs : process_document(query, k)

NextIndex ==
    \/ \E doc_id \in ServiceDocIds, text \in IndexTexts : index_document(doc_id, text)
    \/ \E doc_id \in ServiceDocIds : delete_document(doc_id)
    \/ \E doc_id \in ServiceDocIds : get_document_chunks(doc_id)

\* direct calls of index_document, delete_document and get_document_chunks
\* with texts of one and of two chunks
SpecIndex == Init /\ [][NextIndex]_vars

\* direct calls of the task, the RAGService and the query endpoint, one at a
\* time, on a store that may fail
SpecService == Init /\ [][NextService]_vars

----------------------------------------------------------------------------
(* main.py: the upload endpoint with the uploads it rejects *)

\* fastapi.HTTPException(status_code, detail)
HTTPException(status_code, detail) ==
    [status_code |-> status_code, detail |-> detail]

\* the suffixes of the uploaded file names and their str.lower()
UploadSuffixes == {".pdf", ".PDF", ".txt"}
SuffixLower(suffix) == IF suffix = ".PDF" THEN ".pdf" ELSE suffix

\* the content types of the uploads ("" when the client sends none);
\* main.py:98  content_type.startswith('application/pdf')
UploadContentTypes == {"", "application/pdf", "text/plain"}
StartsWithPdf(content_type) == content_type = "application/pdf"

\* the lengths of the uploaded contents, in bytes
UploadSizes == {1, MAX_FILE_SIZE, MAX_FILE_SIZE + 1}

\* main.py:90-99  validate_file: the exception it raises, None when it returns
validate_file(suffix, content_type) ==
    IF SuffixLower(suffix) \notin ALLOWED_EXTENSIONS
    THEN Some(HTTPException(400, "File type not allowed. Allowed: .pdf"))
    ELSE IF content_type # "" /\ ~StartsWithPdf(content_type)
         THEN Some(HTTPException(400, "Invalid content type. Must be PDF."))
         ELSE None

\* main.py:137-143  the try block of save_uploaded_file: open or write fails
\* with an OSError, or the content is longer than MAX_FILE_SIZE
SaveBlockRaises(size, write_fails) ==
    IF write_fails
    THEN Some("OSError")
    ELSE IF size > MAX_FILE_SIZE
         THEN Some(HTTPException(413, "File too large. Maximum size: "
                                        \o ToString(MAX_FILE_SIZE) \o " bytes"))
         ELSE None

\* main.py:131-146  save_uploaded_file: `except Exception` catches whatever
\* the try block raised, the HTTPException of line 140 included, and raises
\* the HTTPException of line 146; None when the file was saved
save_uploaded_file(size, write_fails) ==
    IF SaveBlockRaises(size, write_fails) # None
    THEN Some(HTTPException(500, "Failed to save uploaded file"))
    ELSE None

\* main.py:237-284  POST /api/upload: validate_file, save_uploaded_file, then
\* the row, the background task and the response; an HTTPException passes
\* through line 280-281
upload_file(f, suffix, content_type, size, write_fails, limit) ==
    \E invalid \in {validate_file(suffix, content_type)} :
    \E unsaved \in {save_uploaded_file(size, write_fails)} :
        IF invalid # None
        THEN /\ svc' = [Call("upload_pdf") EXCEPT
                          !.size = size,
                          !.status_code = invalid[1].status_code,
                          !.raised = Some(invalid[1].detail)]
             /\ UNCHANGED <<documents, rag_service, collection, run, log>>
        ELSE IF unsaved # None
        THEN /\ svc' = [Call("upload_pdf") EXCEPT
                          !.size = size,
                          !.status_code = unsaved[1].status_code,
                          !.raised = Some(unsaved[1].detail),
                          !.calls = {"save"}]
             /\ UNCHANGED <<documents, rag_service, collection, run, log>>
        ELSE /\ Len(documents) < limit
             /\ documents' = Append(documents, NewDocument(f))
             /\ run' = Append(run, NewRun(f))
             /\ log' = Append(log, NewLog)
             /\ svc' = [UploadResponse(Len(documents) + 1, NewDocument(f))
                          EXCEPT !.size = size, !.status_code = 200]
             /\ UNCHANGED <<rag_service, collection>>

NextUpload ==
    \/ \E f \in Files, suffix \in UploadSuffixes,
          content_type \in UploadContentTypes, size \in UploadSizes,
          write_fails \in BOOLEAN :
            upload_file(f, suffix, content_type, size, write_fails, MaxUploadDocs)
    \/ Steps

\* uploads, accepted or rejected, and the background tasks of the accepted
SpecUpload == Init /\ [][NextUpload]_vars

----------------------------------------------------------------------------
(* Properties of the document lifecycle *)

\* the run of d has returned
Done(d) == run[d].pc = "done"

\* the validation verdict of each file's text
Verdict == [f \in Files |-> validate_extracted_text(FileText(f))]

\* the run of d ended through an error: extraction raised, validation
\* rejected, indexing was exhausted or unavailable, or the store raised
EndedInError(d) ==
    \/ log[d].extract_raised # None
    \/ log[d].extract_returned /\ ~Verdict[run[d].file_path].is_valid
    \/ log[d].index_failures = max_index_retries
    \/ log[d].save_raised

\* C1: when run returns, the persisted status of its document is failed,
\* indexed or processed, on every path including a failing store save.
C1_RunEndsInTerminalStatus ==
    \A d \in DocIds : Done(d) => documents[d].status \in Terminal

\* C2: when extraction and validation succeed and every index attempt fails,
\* run ends with status processed, an error message carrying the cause of the
\* last indexing failure, and content equal to the full extracted text; an
\* indexing failure never discards the extracted text.
C2_ExhaustionIsPartialSuccess ==
    \A d \in DocIds :
        /\ log[d].index_failures >= 1 =>
               /\ documents[d].content = FileText(run[d].file_path)
               /\ documents[d].content # <<>>
               /\ documents[d].status # "failed"
        /\ (Done(d) /\ log[d].index_calls >= 1
                    /\ log[d].index_failures = log[d].index_calls) =>
               /\ documents[d].status = "processed"
               /\ documents[d].error_message =
                      Some("RAG indexing failed after retries: "
                           \o "Failed to index document " \o ToString(d))

C2_Witness ==
    \E d \in DocIds :
        /\ Done(d)
        /\ log[d].index_calls = max_index_retries
        /\ log[d].index_failures = max_index_retries
        /\ documents[d].status = "processed"
        /\ documents[d].content = GoodText

\* C3: if an index attempt succeeds (on attempt 1, 2 or 3), run ends with
\* status indexed and no error message, and no index attempt follows the
\* successful one.
C3_SuccessEndsIndexed ==
    /\ [](\A d \in DocIds :
            /\ log[d].index_returned =>
                   /\ log[d].index_calls \in 1..max_index_retries
                   /\ log[d].index_failures = log[d].index_calls - 1
            /\ (Done(d) /\ log[d].index_returned) =>
                   /\ documents[d].status = "indexed"
                   /\ documents[d].error_message = None)
    /\ [][\A d \in DocIds :
            log[d].index_returned =>
                /\ log'[d].index_calls = log[d].index_calls
                /\ log'[d].add_calls = log[d].add_calls]_vars

C3_Witness ==
    \E d \in DocIds :
        /\ Done(d)
        /\ log[d].index_returned
        /\ log[d].index_failures = 2
        /\ log[d].index_calls = 3
        /\ documents[d].status = "indexed"

\* C4: a document's persisted status is indexed only if the similarity store
\* has acknowledged the add of that document's chunks during its run.
C4_IndexedOnlyAfterAck ==
    \A d \in DocIds :
        documents[d].status = "indexed" =>
            /\ log[d].acked
            /\ \E c \in collection : c.metadata.doc_id = d

C4_Witness ==
    \E d \in DocIds :
        /\ documents[d].status = "indexed"
        /\ log[d].acked
        /\ \E c \in collection : c.id = ChunkId(d, 0)

\* C5: failed, indexed and processed are terminal: once one of them is
\* persisted for a document, no step changes that document's status.
C5_TerminalStatusIsFinal ==
    [][\A d \in DocIds :
          documents[d].status \in Terminal =>
              documents'[d].status = documents[d].status]_vars

C5_Witness ==
    \E d \in DocIds :
        /\ Done(d)
        /\ run[d].exc # ""
        /\ documents[d].status = "failed"

\* C6: processing is persisted before extraction is invoked: whenever
\* extraction or indexing is in progress for a document, a status read
\* (get_document_status) returns processing, never uploaded.
C6_ProcessingWhileWorking ==
    \A d \in DocIds :
        run[d].pc \in {"extract", "index", "add"} =>
            documents[d].status = "processing"

C6_Witness ==
    \E d \in DocIds :
        /\ run[d].pc = "add"
        /\ run[d].attempt = 1
        /\ documents[d].status = "processing"

\* C7: every error raised inside run (by extraction, validation, indexing or
\* a store save) is caught and converted into a persisted status and error
\* message on the document.
C7_ErrorsBecomeStatus ==
    \A d \in DocIds :
        (Done(d) /\ EndedInError(d)) =>
            /\ documents[d].status \in {"failed", "processed"}
            /\ documents[d].error_message # None

\* C8: if the save of the failure, of the content or of the final status
\* raises, the top-level handler sets the document to failed with the cause as
\* error message, so it does not stay in processing.
C8_HandlerForcesFailed ==
    \A d \in DocIds :
        (Done(d) /\ run[d].failed_at \in {"mark_failed", "save_content", "finalize"}) =>
            /\ documents[d].status = "failed"
            /\ documents[d].error_message = Some(run[d].exc)

\* C9: if extraction raises, run ends with status failed and the error
\* message "Text extraction failed: <cause>", content is left untouched and
\* index is never invoked.
C9_ExtractionFailure ==
    \A d \in DocIds :
        log[d].extract_raised # None =>
            /\ log[d].index_calls = 0
            /\ log[d].add_calls = 0
            /\ documents[d].content = <<>>
            /\ Done(d) =>
                   /\ documents[d].status = "failed"
                   /\ documents[d].error_message =
                          Some("Text extraction failed: " \o log[d].extract_raised[1])

C9_Witness ==
    \E d \in DocIds :
        /\ Done(d)
        /\ log[d].extract_raised =
               Some("Failed to extract text from PDF: EOF marker not found in good.pdf")
        /\ documents[d].error_message =
               Some("Text extraction failed: Failed to extract text from PDF: "
                    \o "EOF marker not found in good.pdf")
        /\ documents[d].status = "failed"

\* C10: if validation rejects the extracted text (empty text always fails),
\* run ends with status failed and the error message
\* "Text extraction validation failed: <reason>", content is not written and
\* index is never invoked.
C10_ValidationFailure ==
    /\ ~validate_extracted_text(<<>>).is_valid
    /\ \A d \in DocIds :
          (log[d].extract_returned /\ ~Verdict[run[d].file_path].is_valid) =>
              /\ log[d].index_calls = 0
              /\ log[d].add_calls = 0
              /\ documents[d].content = <<>>
              /\ Done(d) =>
                     /\ documents[d].status = "failed"
                     /\ documents[d].error_message =
                            Some("Text extraction validation failed: "
                                 \o Verdict[run[d].file_path].reason)
                     /\ run[d].file_path = "empty.pdf" =>
                            documents[d].error_message =
                                Some("Text extraction validation failed: No text content")

C10_Witness ==
    \E d \in DocIds :
        /\ Done(d)
        /\ run[d].file_path = "empty.pdf"
        /\ log[d].extract_returned
        /\ documents[d].status = "failed"

----------------------------------------------------------------------------
(* Properties of direct calls and of the runs taken together *)

\* the step is a direct call of op (svc is rewritten by every direct call)
Called(op) == svc' # svc /\ svc'.op = op

\* C11: if no document with the given id exists when run is invoked, run
\* aborts silently: it raises nothing, creates or modifies no document
\* record, and calls neither extract nor index.
C11_AbsentRunAbortsSilently ==
    [][Called("process_and_index_document") =>
          /\ svc'.doc_id \notin DocIds
          /\ svc'.raised = None
          /\ documents' = documents
          /\ collection' = collection
          /\ run' = run
          /\ log' = log
          /\ svc'.calls \cap {"extract", "index", "add"} = {}]_vars

C11_Witness ==
    /\ svc.op = "process_and_index_document"
    /\ svc.doc_id \notin DocIds
    /\ svc.raised = None
    /\ documents # <<>>

\* C12: within one run, content is written at most once, only after
\* extraction and validation have both succeeded, and the value written is
\* the complete extracted text: in every reachable state content is either
\* its value from before the run (empty) or the full extracted text.
C12_ContentWrittenOnceAndWhole ==
    /\ [](\A d \in DocIds :
            /\ documents[d].content \in {<<>>, FileText(run[d].file_path)}
            /\ documents[d].content # <<>> =>
                   /\ log[d].extract_returned
                   /\ log[d].extract_calls = 1
                   /\ Verdict[run[d].file_path].is_valid
                   /\ run[d].pc \notin {"scheduled", "mark_processing",
                                        "extract", "mark_failed"})
    /\ [][\A d \in DocIds :
            documents'[d].content # documents[d].content =>
                /\ documents[d].content = <<>>
                /\ run[d].pc \in {"save_content", "handler"}
                /\ documents'[d].content = run[d].text_content]_vars

C12_Witness ==
    \E d \in DocIds :
        /\ Done(d)
        /\ documents[d].content = GoodText
        /\ documents[d].content # <<>>

\* the row the run of d leaves when it executes alone, given what its own
\* extraction and its own index calls did
AloneResult(d) ==
    LET f == run[d].file_path
        row == NewDocument(f)
    IN  IF log[d].extract_raised # None
        THEN [row EXCEPT !.status = "failed",
                         !.error_message = Some("Text extraction failed: "
                                                \o log[d].extract_raised[1])]
        ELSE IF ~Verdict[f].is_valid
        THEN [row EXCEPT !.status = "failed",
                         !.error_message = Some("Text extraction validation failed: "
                                                \o Verdict[f].reason)]
        ELSE IF ~rag_service
        THEN [row EXCEPT !.content = FileText(f), !.status = "processed",
                         !.error_message = UnavailableResult.rag_error]
        ELSE IF log[d].acked
        THEN [row EXCEPT !.content = FileText(f), !.status = "indexed"]
        ELSE [row EXCEPT !.content = FileText(f), !.status = "processed",
                         !.error_message = ExhaustedResult(IndexError(d)).rag_error]

\* C13: runs for different document ids interleave without interfering: a
\* step of the run of d writes only the row of d and only index entries
\* whose id and metadata belong to d, and under every interleaving each
\* document ends in the status, error message and content (and with the
\* index entries) its run produces when executed alone.
C13_RunsDoNotInterfere ==
    /\ [](\A d \in DocIds :
            Done(d) =>
               /\ documents[d] = AloneResult(d)
               /\ Where(collection, d) =
                      IF log[d].acked
                      THEN ChunkRecords(d, FileChunks[run[d].file_path])
                      ELSE {})
    /\ [][\A d \in DocIds :
            run'[d] # run[d] =>
               /\ \A e \in DocIds \ {d} :
                      documents'[e] = documents[e] /\ run'[e] = run[e]
               /\ collection \subseteq collection'
               /\ \A c \in collection' \ collection :
                      /\ c.metadata.doc_id = d
                      /\ c.id = ChunkId(d, c.metadata.chunk_index)]_vars

C13_Witness ==
    \E d, e \in DocIds :
        /\ d # e
        /\ run[d].pc = "add"
        /\ run[e].pc = "add"
        /\ Where(collection, d) = {}
        /\ Where(collection, e) = {}

\* C14: each accepted upload creates exactly one document record (status
\* uploaded, empty content) and schedules exactly one run for that new id,
\* and the response is produced before that run has started; there is one
\* run per document id, so no two runs of one id are in progress together.
C14_UploadSchedulesOneRun ==
    /\ [](Len(run) = Len(documents) /\ Len(log) = Len(documents))
    /\ [][Called("upload_pdf") \/ Len(documents') # Len(documents)
             \/ Len(run') # Len(run) =>
          LET id == Len(documents) + 1
          IN  /\ Len(documents') = id
              /\ Len(run') = id
              /\ \A d \in DocIds :
                     documents'[d] = documents[d] /\ run'[d] = run[d]
              /\ documents'[id].status = "uploaded"
              /\ documents'[id].content = <<>>
              /\ documents'[id].error_message = None
              /\ run'[id].pc = "scheduled"
              /\ run'[id].file_path = documents'[id].file_path
              /\ log'[id].extract_calls = 0
              /\ svc'.op = "upload_pdf"
              /\ svc'.doc_id = id
              /\ svc'.response = "uploaded"
              /\ svc'.raised = None]_vars

C14_Witness ==
    /\ Len(documents) = 2
    /\ svc.op = "upload_pdf"
    /\ svc.doc_id = 2
    /\ run[2].pc = "scheduled"
    /\ run[1].pc \notin {"scheduled", "done"}

\* C15: every run started for an existing document eventually returns with
\* the document in a terminal status (failed, indexed or processed), provided
\* each collaborator call returns or raises.
C15_RunEventuallyTerminal ==
    \A d \in 1..MaxFaultDocs :
        [](d \in DocIds =>
              <>(d \in DocIds /\ Done(d) /\ documents[d].status \in Terminal))

\* C16: re-indexing replaces a document's chunks wholesale: after
\* index(docId, text) completes on a store that already holds chunks for
\* docId, the store's chunks for docId are exactly the chunks of the new
\* text, with no chunk of the earlier indexing remaining (stated for a new
\* text that has chunks).
C16_ReindexReplacesChunks ==
    [][(/\ Called("index_document")
        /\ svc'.raised = None
        /\ svc'.result # <<>>
        /\ Where(collection, svc'.doc_id) # {}) =>
          Where(collection', svc'.doc_id) =
             ChunkRecords(svc'.doc_id,
                          chunk_text(svc'.text, DefaultChunkSize, DefaultOverlap))]_vars

\* C17: search(query, k) never raises to its caller: on an empty index and
\* on any backing-store failure it returns an empty sequence, and otherwise
\* it returns at most k chunk texts.
C17_SearchNeverRaises ==
    svc.op = "search" =>
        /\ svc.raised = None
        /\ collection = {} => svc.result = <<>>
        /\ svc.store_failed => svc.result = <<>>
        /\ Len(svc.result) <= svc.k
        /\ \A i \in 1..Len(svc.result) :
               \E c \in collection : c.document = svc.result[i]

C17_Witness ==
    /\ svc.op = "search"
    /\ svc.store_failed
    /\ svc.k = 2
    /\ Cardinality(collection) = 2
    /\ svc.result = <<>>
    /\ svc.raised = None

IndexedTexts ==
    UNION {{ServiceChunks[t][i] : i \in 1..Len(ServiceChunks[t])} : t \in ServiceTexts}

\* C19: after index(docId, text) succeeds for a non-blank text on a working
\* store, a subsequent search(query, k) with k >= 1 returns a non-empty
\* sequence, and every returned text is a chunk that was previously indexed.
C19_SearchFindsIndexedChunks ==
    /\ [][(/\ Called("index_document")
            /\ svc'.raised = None
            /\ strip(svc'.text) # <<>>) =>
              /\ Where(collection', svc'.doc_id) # {}
              /\ collection \subseteq collection']_vars
    /\ [](\A c \in collection : c.document \in IndexedTexts)
    /\ []((/\ svc.op = "search"
            /\ ~svc.store_failed
            /\ svc.k >= 1
            /\ collection # {}) =>
              /\ svc.result # <<>>
              /\ \A i \in 1..Len(svc.result) :
                     \E c \in collection : c.document = svc.result[i])

C19_Witness ==
    /\ svc.op = "search"
    /\ ~svc.store_failed
    /\ svc.k = 2
    /\ Len(svc.result) = 2
    /\ svc.result[1] # svc.result[2]

\* C20: when search returns no chunks, answer returns without ever calling
\* generate: it returns the message 'no documents uploaded yet' if the
\* document count is zero and the message 'no relevant content found' if
\* the count is positive, with an empty chunk list in both cases.
C20_NoChunksNoGenerate ==
    (svc.op = "process_document" /\ svc.found = 0) =>
        /\ "generate" \notin svc.calls
        /\ svc.raised = None
        /\ svc.result = <<>>
        /\ svc.response = IF Len(documents) = 0
                          THEN "No documents have been uploaded yet. "
                               \o "Please upload some PDF documents first."
                          ELSE NoRelevantContentMessage
        /\ svc.response \notin LLMResponses

C20_Witness ==
    /\ svc.op = "process_document"
    /\ svc.found = 0
    /\ rag_service
    /\ collection # {}
    /\ Len(documents) > 0
    /\ svc.response = NoRelevantContentMessage

\* C21: process_document never raises because the vector index is
\* unavailable, the search fails or generate_response fails: it returns a
\* non-empty explanatory response, and whenever the search returned chunks
\* and the generation failed, the response carries exactly those chunks.
C21_AnswerDegradesWithoutRaising ==
    (svc.op = "process_document") =>
        /\ svc.raised = None
        /\ svc.response # ""
        /\ svc.failures # {} => svc.response # "completion"
        /\ (svc.found > 0 /\ "generate" \in svc.failures) =>
               /\ svc.result = svc.retrieved
               /\ Len(svc.result) = svc.found

C21_Witness ==
    /\ svc.op = "process_document"
    /\ svc.found = 2
    /\ "generate" \in svc.failures
    /\ svc.response = "Error generating LLM response: generate_response failed"
                      \o ". Retrieved context chunks are available below."
    /\ svc.result = svc.retrieved
    /\ Len(svc.result) = 2

\* the five checks of the validation, each taken on its own
FailsBlank(text) == strip(text) = <<>>

FailsLength(text) == Len(strip(text)) < 50

FailsSpecial(text) == 10 * SpecialChars(strip(text)) > 3 * Len(strip(text))

FailsRepeat(text) == HasRepetition(strip(text))

FailsWords(text) == WordCount(strip(text)) < 10

\* C22: the validation takes its five checks in the order blank text,
\* trimmed length below 50, ratio of special characters, repeated
\* characters, fewer than 10 words, and the reason it reports is that of
\* the first check in this order that fails.
C22_FirstFailingCheckDecides ==
    (svc.op = "validate_extracted_text") =>
        LET t == svc.text
            stripped == strip(t)
        IN  IF FailsBlank(t) THEN svc.response = "No text content"
            ELSE IF FailsLength(t)
            THEN svc.response = "Text too short (" \o ToString(Len(stripped))
                                \o " characters)"
            ELSE IF FailsSpecial(t)
            THEN svc.response = "Too many special characters ("
                                \o FormatPercent(SpecialChars(stripped), Len(stripped))
                                \o ") - possible OCR failure"
            ELSE IF FailsRepeat(t)
            THEN svc.response =
                    "Repetitive characters detected - possible extraction error"
            ELSE IF FailsWords(t)
            THEN svc.response = "Insufficient word count ("
                                \o ToString(WordCount(stripped)) \o " words)"
            ELSE svc.is_valid /\ svc.response = "Text validation passed"

\* a text that fails the last three checks at once
C22_Witness ==
    /\ svc.op = "validate_extracted_text"
    /\ ~FailsBlank(svc.text) /\ ~FailsLength(svc.text)
    /\ FailsSpecial(svc.text) /\ FailsRepeat(svc.text) /\ FailsWords(svc.text)
    /\ ~svc.is_valid
    /\ svc.response = "Too many special characters ("
                      \o FormatPercent(SpecialChars(strip(svc.text)),
                                       Len(strip(svc.text)))
                      \o ") - possible OCR failure"

\* the run of d extracted the text "A. " repeated 5 times and has returned
ShortTextRunDone(d) ==
    /\ Done(d)
    /\ run[d].file_path = "short.pdf"
    /\ FileText("short.pdf") = Rep(<<"A", ".", " ">>, 5)
    /\ log[d].extract_returned

\* C23 as stated: for the extracted text "A. " repeated 5 times (15
\* characters) the validation rejects with the reason 'Text too short (15
\* characters)' and the run ends in failed.
C23_ReportsFifteenCharacters ==
    \A d \in DocIds :
        ShortTextRunDone(d) =>
            /\ documents[d].status = "failed"
            /\ documents[d].error_message =
                   Some("Text extraction validation failed: "
                        \o "Text too short (15 characters)")

\* C23 amended: for the extracted text "A. " repeated 5 times (15
\* characters) the validation rejects with the reason 'Text too short (14
\* characters)', the count being the length of the trimmed text, and the
\* run ends in failed.
C23_ReportsTrimmedLength ==
    \A d \in DocIds :
        ShortTextRunDone(d) =>
            /\ Len(FileText("short.pdf")) = 15
            /\ documents[d].status = "failed"
            /\ documents[d].error_message =
                   Some("Text extraction validation failed: "
                        \o "Text too short (14 characters)")

C23_Witness ==
    \E d \in DocIds :
        /\ ShortTextRunDone(d)
        /\ documents[d].status = "failed"
        /\ documents[d].content = <<>>
        /\ log[d].index_calls = 0

\* the call of chunk_text has returned
ChunkReturned == svc.op = "chunk_text" /\ svc.pc = "returned"

\* the step-by-step loop returns what the operator chunk_text computes
ChunkStepsAgree ==
    ChunkReturned => svc.result = chunk_text(svc.text, svc.chunk_size, svc.overlap)

\* position p (0-based) of the normalized text lies in a returned chunk
Covered(p) ==
    \E i \in 1..Len(svc.spans) : svc.spans[i][1] <= p /\ p < svc.spans[i][2]

C25_TwoOrThreeChunks ==
    (ChunkReturned /\ Len(svc.normalized) = 2000
        /\ svc.chunk_size = 1000 /\ svc.overlap = 200) =>
        Len(svc.result) \in {2, 3}

\* C25 amended: a well-formed document whose normalized text has 2000
\* characters, chunked with chunk_size 1000 and overlap 200, gives exactly
\* 3, 4 or 5 chunks, depending on where the sentence ends and paragraph
\* breaks used for snapping lie.
C25_ThreeToFiveChunks ==
    (ChunkReturned /\ Len(svc.normalized) = 2000
        /\ svc.chunk_size = 1000 /\ svc.overlap = 200) =>
        Len(svc.result) \in {3, 4, 5}

C25_Witness ==
    /\ ChunkReturned
    /\ Len(svc.normalized) = 2000
    /\ svc.chunk_size = 1000 /\ svc.overlap = 200
    /\ Len(svc.result) = 5
    /\ \E i \in 1..Len(svc.windows) :
          svc.windows[i][2] < svc.windows[i][1] + svc.chunk_size

\* C26: chunk_text terminates for every text, every chunk_size >= 1 and
\* every overlap >= 0, overlap >= chunk_size included: start grows with
\* every iteration, no iteration runs once start has reached the length of
\* the normalized text, and the call returns.
C26_ChunkTerminates ==
    /\ [][(svc.op = "chunk_text" /\ svc.pc = "loop") =>
             /\ svc'.pc = "loop" => svc'.start > svc.start
             /\ svc.start >= Len(svc.normalized) =>
                    svc'.pc = "returned" /\ svc'.result = svc.result]_vars
    /\ [](svc.op = "chunk_text" =>
             \A i \in 1..Len(svc.windows) : svc.windows[i][1] < Len(svc.normalized))
    /\ (svc.op = "chunk_text") ~> (svc.pc = "returned")

C26_Witness ==
    /\ ChunkReturned
    /\ svc.overlap >= svc.chunk_size
    /\ Len(svc.windows) = Len(svc.normalized)
    /\ Len(svc.windows) >= 3

\* C27: chunk_text returns the empty list exactly when its text is empty or
\* all whitespace; a text with a character that is not whitespace gives at
\* least one chunk.
C27_EmptyIffBlank ==
    ChunkReturned =>
        (svc.result = <<>> <=> \A i \in 1..Len(svc.text) : IsSpace(svc.text[i]))

C27_Witness ==
    /\ ChunkReturned
    /\ Len(svc.text) = 3
    /\ IsSpace(svc.text[1]) /\ ~IsSpace(svc.text[2]) /\ IsSpace(svc.text[3])
    /\ svc.chunk_size = 1
    /\ Len(svc.result) = 1

\* C28: a run calls index_document at most 3 times; after the failure of
\* attempt a < 2 it waits 2^a seconds (1, then 2) before the next attempt,
\* and after the failure of the last attempt it waits no more and reports
\* that the retries are exhausted.
C28_ThreeAttemptsWithBackoff ==
    \A d \in DocIds :
        /\ log[d].index_calls <= 3
        /\ log[d].index_failures <= log[d].index_calls
        /\ log[d].backoffs = SubSeq(<<1, 2>>, 1, Min({log[d].index_failures, 2}))
        /\ log[d].index_calls <= Len(log[d].backoffs) + 1
        /\ log[d].index_failures = 3 =>
               /\ run[d].pc \in {"finalize", "done"}
               /\ Done(d) =>
                      documents[d].error_message =
                         Some("RAG indexing failed after retries: "
                              \o "Failed to index document " \o ToString(d))

C28_Witness ==
    \E d \in DocIds :
        /\ Done(d)
        /\ log[d].index_calls = 3
        /\ log[d].index_failures = 3
        /\ log[d].backoffs = <<1, 2>>
        /\ documents[d].status = "processed"

\* C29: in every reachable state of a document, status indexed implies
\* that the error message is null, and status failed or processed implies
\* that it is not null.
C29_ErrorMessageMatchesStatus ==
    \A d \in DocIds :
        /\ documents[d].status = "indexed" => documents[d].error_message = None
        /\ documents[d].status \in {"failed", "processed"} =>
               documents[d].error_message # None

C29_Witness ==
    \E d1, d2 \in DocIds :
        /\ Done(d1) /\ Done(d2)
        /\ documents[d1].status = "indexed"
        /\ documents[d1].error_message = None
        /\ log[d1].index_failures > 0
        /\ documents[d2].status \in {"failed", "processed"}
        /\ documents[d2].error_message # None

\* C30: the extraction is never retried: a run calls extract_text at most
\* once, a run whose extraction failed ends without a second extraction
\* and without indexing, and only the indexing is tried again.
C30_ExtractionAtMostOnce ==
    \A d \in DocIds :
        /\ log[d].extract_calls <= 1
        /\ log[d].index_calls > 1 => log[d].extract_calls = 1
        /\ (log[d].extract_calls = 1 /\ ~run[d].success) =>
               /\ run[d].pc \in {"mark_failed", "done"}
               /\ log[d].index_calls = 0
               /\ Done(d) => documents[d].status = "failed"

C30_Witness ==
    \E d1, d2 \in DocIds :
        /\ Done(d1) /\ Done(d2)
        /\ log[d1].extract_raised # None
        /\ log[d1].extract_calls = 1
        /\ documents[d1].status = "failed"
        /\ log[d2].extract_calls = 1
        /\ log[d2].index_calls = 3

\* the ends (exclusive) of the sentence boundaries -- '.', '!' or '?'
\* followed by whitespace -- that lie inside text[start:end] and end at or
\* after start + 60% of chunk_size
QualifyingSentenceEnds(text, start, end, chunk_size) ==
    {e \in (start + 2)..end :
        /\ e <= Len(text)
        /\ text[e - 1] \in {".", "!", "?"}
        /\ IsSpace(text[e])
        /\ 10 * e >= 10 * start + 6 * chunk_size}

\* the starts of the paragraph breaks inside text[start:end]
ParagraphBreaks(text, start, end) ==
    {q \in start..(end - 2) :
        q + 2 <= Len(text) /\ text[q + 1] = "\n" /\ text[q + 2] = "\n"}

\* the end the snapping rule gives the window that starts at start
SnappedEnd(text, start, chunk_size) ==
    LET edge == start + chunk_size
        sentences == QualifyingSentenceEnds(text, start, edge, chunk_size)
        breaks == ParagraphBreaks(text, start, edge)
    IN  IF edge >= Len(text) THEN edge
        ELSE IF sentences # {} THEN Max(sentences)
        ELSE IF breaks # {} /\ 2 * Max(breaks) > 2 * start + chunk_size
        THEN Max(breaks) + 2
        ELSE edge

\* C31: a window whose right edge start + chunk_size lies before the end of
\* the text ends at the last sentence boundary in it that lies at or after
\* start + 60% of chunk_size if there is one, otherwise after the last
\* paragraph break in it if that break lies past start + chunk_size / 2,
\* otherwise at start + chunk_size; a window that reaches the end of the
\* text is not snapped.
C31_WindowEndFollowsSnappingRule ==
    (svc.op = "chunk_text") =>
        \A i \in 1..Len(svc.windows) :
            svc.windows[i][2] =
                SnappedEnd(svc.normalized, svc.windows[i][1], svc.chunk_size)

\* the end of the slice of window i: the window's end, or the end of the text
SliceEnd(i) == Min({svc.windows[i][2], Len(svc.normalized)})

\* the slices of windows i and i + 1 share exactly the last overlap
\* positions of the first, which are the first positions of the second
OverlapsNext(i) ==
    /\ svc.windows[i][1] <= SliceEnd(i) - svc.overlap
    /\ svc.windows[i + 1][1] = SliceEnd(i) - svc.overlap
    /\ SliceEnd(i + 1) >= SliceEnd(i)

\* the next window starts at max(start + 1, end - overlap)
NextStartRule(i) ==
    svc.windows[i + 1][1] =
        Max({svc.windows[i][1] + 1, svc.windows[i][2] - svc.overlap})

\* C32 as stated: every window is followed by one that starts at
\* max(start + 1, end - overlap), so that consecutive slices overlap by
\* overlap characters, except possibly the last two.
C32_ConsecutiveSlicesOverlap ==
    ChunkReturned =>
        \A i \in 1..(Len(svc.windows) - 1) :
            /\ NextStartRule(i)
            /\ i + 1 < Len(svc.windows) => OverlapsNext(i)

\* C32 amended: every window is followed by one that starts at
\* max(start + 1, end - overlap), so that consecutive slices overlap by
\* overlap characters whenever the window is longer than overlap and the
\* next slice is at least overlap characters long, except possibly the
\* last two.
C32_SlicesOverlapWhenLongEnough ==
    ChunkReturned =>
        \A i \in 1..(Len(svc.windows) - 1) :
            /\ NextStartRule(i)
            /\ (/\ i + 1 < Len(svc.windows)
                /\ svc.windows[i][2] - svc.windows[i][1] > svc.overlap
                /\ SliceEnd(i + 1) - svc.windows[i + 1][1] >= svc.overlap) =>
                   OverlapsNext(i)

C32_Witness ==
    /\ ChunkReturned
    /\ svc.overlap = 1
    /\ svc.chunk_size = 2
    /\ Len(svc.windows) >= 3
    /\ OverlapsNext(1)
    /\ svc.result[1][Len(svc.result[1])] = svc.result[2][1]

\* C33: every chunk chunk_text returns is non-empty, starts and ends with a
\* character that is not whitespace, and is at most chunk_size characters
\* long.
C33_ChunksTrimmedAndBounded ==
    (svc.op = "chunk_text") =>
        \A i \in 1..Len(svc.result) :
            /\ Len(svc.result[i]) >= 1
            /\ ~IsSpace(svc.result[i][1])
            /\ ~IsSpace(svc.result[i][Len(svc.result[i])])
            /\ Len(svc.result[i]) <= svc.chunk_size

\* chunks as long as chunk_size, a window of whitespace that gave no
\* chunk, and a window whose chunk lost whitespace by trimming
C33_Witness ==
    /\ ChunkReturned
    /\ Len(svc.result) >= 2
    /\ \/ /\ svc.chunk_size = 1
          /\ Len(svc.windows) > Len(svc.result)
       \/ /\ svc.chunk_size = 2
          /\ \E i \in 1..Len(svc.result) :
                svc.spans[i][2] - svc.spans[i][1] < svc.chunk_size
    /\ \E i \in 1..Len(svc.result) : Len(svc.result[i]) = svc.chunk_size
    /\ \E i \in 1..Len(svc.normalized) : IsSpace(svc.normalized[i])

\* C34: index_document stores the n chunks of its text under n distinct
\* ids, one per chunk index 0..n-1 in the order of the chunks, so that
\* after indexing a document that had no chunks in the store
\* get_document_chunks returns chunk_text(text) in the same order; the ids
\* of different documents do not collide.
C34_IndexKeepsChunkOrder ==
    /\ [][(/\ Called("index_document")
            /\ svc'.raised = None
            /\ Where(collection, svc'.doc_id) = {}) =>
              LET d == svc'.doc_id
                  chunks == ServiceChunks[svc'.text]
                  stored == Where(collection', d)
              IN  /\ Cardinality(stored) = Len(chunks)
                  /\ Cardinality({r.id : r \in stored}) = Len(chunks)
                  /\ {r.metadata.chunk_index : r \in stored} = 0..(Len(chunks) - 1)
                  /\ SortedChunks(stored) = chunks
                  /\ collection' \ stored = collection]_vars
    /\ [][(Called("get_document_chunks") /\ ~svc'.store_failed) =>
              svc'.result = SortedChunks(Where(collection, svc'.doc_id))]_vars
    /\ [](Cardinality({r.id : r \in collection}) = Cardinality(collection))

C34_Witness ==
    /\ svc.op = "get_document_chunks"
    /\ svc.doc_id = 2
    /\ Len(svc.result) = 2
    /\ svc.result = chunk_text(LongText, 1000, 200)
    /\ Len(svc.result[1]) > Len(svc.result[2])
    /\ Cardinality(Where(collection, 1)) = 2
    /\ Cardinality(collection) = 4

\* some character of text, whichever it is, stands 11 or more times in a row
RepeatsElevenTimes(text) ==
    \E i \in 1..(Len(text) - 10) : \A j \in 1..10 : text[i + j] = text[i]

\* C35: the validation accepts a text exactly when none of the five
\* rejection conditions holds: the text is empty or all whitespace; its
\* trimmed length is below 50; more than 0.30 of its characters are neither
\* alphanumeric, whitespace nor one of . , ! ? ; : - ( ) [ ] { }; some
\* character stands 11 or more times in a row; it has fewer than 10 words.
C35_ValidIffNoRejection ==
    (svc.op = "validate_extracted_text") =>
        LET t == strip(svc.text)
        IN  svc.is_valid <=>
               ~ \/ t = <<>>
                 \/ Len(t) < 50
                 \/ 10 * SpecialChars(t) > 3 * Len(t)
                 \/ RepeatsElevenTimes(t)
                 \/ WordCount(t) < 10

\* C36: a failure of the store during index_document surfaces as an
\* exception: index_document returns normally only when the store has
\* acknowledged the add of the text's chunks or the text has no chunks, and
\* for a text without chunks it makes no store call and raises nothing.
C36_IndexRaisesOnStoreFailure ==
    (svc.op = "index_document") =>
        LET chunks == ServiceChunks[svc.text]
        IN  /\ chunks = <<>> => svc.raised = None /\ svc.calls = {}
            /\ svc.raised = None =>
                  \/ chunks = <<>>
                  \/ /\ svc.calls = {"add"}
                     /\ svc.result = chunks
                     /\ \A r \in ChunkRecords(svc.doc_id, chunks) :
                            \E c \in collection : c.id = r.id
            /\ svc.raised # None =>
                  svc.calls = {"add"} /\ svc.raised = Some(IndexError(svc.doc_id))

\* an index_document call has raised after the store refused its chunks
C36_Witness ==
    /\ svc.op = "index_document"
    /\ ServiceChunks[svc.text] # <<>>
    /\ svc.raised = Some(IndexError(svc.doc_id))

\* the adds of document d's run that the store refused
FailedAdds(d) == log[d].add_calls - (IF log[d].acked THEN 1 ELSE 0)

\* the seconds of a sequence of waits
RECURSIVE Seconds(_)
Seconds(waits) ==
    IF waits = <<>> THEN 0 ELSE Head(waits) + Seconds(Tail(waits))

\* C37: the two retry loops around indexing are nested. One call of
\* index_document tries the store add at most 3 times, pausing one second
\* between tries, before it raises; a run calls index_document at most 3
\* times, so it makes at most 9 adds, and each failure that reaches the
\* run's loop stands for 3 refused adds in a row; after the first
\* acknowledged add the run makes no further add and no further call.
C37_NestedRetryLoops ==
    /\ [](\A d \in DocIds :
            /\ log[d].index_calls <= 3
            /\ log[d].add_calls <= 3 * log[d].index_calls
            /\ log[d].add_calls <= 9
            /\ 3 * log[d].index_failures <= FailedAdds(d)
            /\ FailedAdds(d) <= 3 * log[d].index_failures + 2
            /\ Len(log[d].sleeps) - Len(log[d].backoffs) =
                  FailedAdds(d) - log[d].index_failures
            /\ Seconds(log[d].sleeps) - Seconds(log[d].backoffs) =
                  Len(log[d].sleeps) - Len(log[d].backoffs)
            /\ log[d].acked => run[d].pc \in {"finalize", "done"})
    /\ [][\A d \in DocIds :
            log[d].acked =>
                /\ log'[d].add_calls = log[d].add_calls
                /\ log'[d].index_calls = log[d].index_calls
                /\ log'[d].sleeps = log[d].sleeps]_vars

\* a finished run in which all 9 adds were refused
C37_Witness ==
    \E d \in DocIds :
        /\ Done(d)
        /\ log[d].add_calls = 9
        /\ log[d].index_calls = 3
        /\ log[d].index_failures = 3
        /\ log[d].sleeps = <<1, 1, 1, 1, 1, 2, 1, 1>>

\* C38: every chunk after the first covers a position of the normalized
\* text beyond the end of the chunk before it, so that no returned chunk is
\* entirely contained in its predecessor, also when the last window extends
\* past the end of the text.
C38_NoChunkInsidePredecessor ==
    ChunkReturned =>
        \A i \in 1..(Len(svc.spans) - 1) : svc.spans[i + 1][2] > svc.spans[i][2]

\* C39: when the vector index service is unavailable (rag_service is None),
\* a run whose extraction and validation succeed makes no index attempt and
\* no backoff wait, and ends with status processed, a non-null error
\* message saying that the document was not indexed, and content equal to
\* the extracted text.
C39_UnavailableServiceLeavesProcessed ==
    \A d \in DocIds :
        (/\ ~rag_service
         /\ log[d].extract_returned
         /\ Verdict[run[d].file_path].is_valid) =>
            /\ log[d].index_calls = 0
            /\ log[d].add_calls = 0
            /\ log[d].sleeps = <<>>
            /\ Done(d) =>
                  /\ documents[d].status = "processed"
                  /\ documents[d].error_message =
                        Some("RAG service not available, document not indexed")
                  /\ documents[d].content = FileText(run[d].file_path)

\* a run without the service has ended after a successful extraction
C39_Witness ==
    \E d \in DocIds :
        /\ ~rag_service
        /\ Done(d)
        /\ log[d].extract_returned
        /\ Verdict[run[d].file_path].is_valid
        /\ documents[d].status = "processed"
        /\ documents[d].content = FileText(run[d].file_path)

\* C40: an upload whose content is larger than MAX_FILE_SIZE (50 MB) is
\* rejected with HTTP status 413 and the detail 'File too large ...' (unless
\* its name or content type has already been refused with status 400), and
\* a rejected upload creates no document record and schedules no
\* background run.
C40_OversizeRejectedWith413 ==
    [][Called("upload_pdf") =>
          /\ (svc'.size > MAX_FILE_SIZE /\ svc'.status_code # 400) =>
                 /\ svc'.status_code = 413
                 /\ svc'.raised = Some("File too large. Maximum size: "
                                         \o "52428800 bytes")
          /\ svc'.raised # None =>
                 /\ documents' = documents
                 /\ run' = run
                 /\ "add_task" \notin svc'.calls]_vars

====
